---- MODULE Spec2Model ----
(***************************************************************************)
(* Reconciliation matching engine of conciliacao-bancaria:                 *)
(*   MotorConciliacao (src/src/conciliacao/motor.py),                      *)
(*   EstrategiaExato  (src/src/conciliacao/estrategias/exato.py),          *)
(*   EstrategiaRegras (src/src/conciliacao/estrategias/regras.py),         *)
(*   EngineRegras     (src/src/regras/engine.py),                          *)
(*   Match            (src/src/modelos/match.py).                          *)
(*                                                                         *)
(* Conventions.  Confidences are integers in hundredths (0.85 is 85),      *)
(* amounts are integers in cents, dates are day numbers.  A text is a      *)
(* sequence of strings, each a character or a run of characters without    *)
(* whitespace; the elements " " and "\n" are its whitespace.               *)
(* An optional value (a missing dict key, a Python None) is a sequence of  *)
(* length 0 or 1.  Objects (Lancamento, Comprovante) are identified by     *)
(* their index in LancObj / CompObj: the index plays the role of id().     *)
(***************************************************************************)
EXTENDS Integers, Sequences, FiniteSets, TLC

(***************************************************************************)
(* Bounds of the model.                                                    *)
(***************************************************************************)
MaxLanc == 2
MaxComp == 2
MaxRuns == 1

(***************************************************************************)
(* Text helpers (Python str operations used by the code).                  *)
(***************************************************************************)
Abs(n) == IF n < 0 THEN 0 - n ELSE n

\* set(lista)
Range(f) == {f[i] : i \in DOMAIN f}

IsSpace(c) == c \in {" ", "\n"}

\* str.upper() on the alphabet of the model
Upper(c) ==
  CASE c = "t" -> "T"
    [] c = "a" -> "A"
    [] c = "x" -> "X"
    [] OTHER -> c

UpperStr(s) == [i \in 1..Len(s) |-> Upper(s[i])]

\* Python "needle in hay" on str
ContainsStr(needle, hay) ==
  \E i \in 0..(Len(hay) - Len(needle)) : SubSeq(hay, i + 1, i + Len(needle)) = needle

\* str.split(): the maximal runs of non-whitespace characters
RECURSIVE Split(_)
Split(s) ==
  IF s = <<>> THEN <<>>
  ELSE IF IsSpace(Head(s)) THEN Split(Tail(s))
  ELSE LET k == CHOOSE n \in 1..Len(s) :
                  /\ \A i \in 1..n : ~IsSpace(s[i])
                  /\ (n = Len(s) \/ IsSpace(s[n + 1]))
       IN  <<SubSeq(s, 1, k)>> \o Split(SubSeq(s, k + 1, Len(s)))

\* ' '.join(words)
RECURSIVE JoinSpace(_)
JoinSpace(ws) ==
  IF ws = <<>> THEN <<>>
  ELSE IF Len(ws) = 1 THEN ws[1]
  ELSE ws[1] \o <<" ">> \o JoinSpace(Tail(ws))

\* ' '.join(texto.split())
NormalizarEspacos(s) == JoinSpace(Split(s))

\* decimal digits of a one-character string; 10 when it is not a digit
DigitVal(c) ==
  CASE c = "0" -> 0 [] c = "1" -> 1 [] c = "2" -> 2 [] c = "3" -> 3
    [] c = "4" -> 4 [] c = "5" -> 5 [] c = "6" -> 6 [] c = "7" -> 7
    [] c = "8" -> 8 [] c = "9" -> 9 [] OTHER -> 10

\* order of the characters of the model's alphabet (Python compares code points)
Ord(c) ==
  CASE c = "\n" -> 10 [] c = " " -> 32 [] c = "(" -> 40 [] c = "." -> 46
    [] DigitVal(c) < 10 -> 48 + DigitVal(c)
    [] c = "A" -> 65 [] c = "C" -> 67 [] c = "D" -> 68 [] c = "I" -> 73
    [] c = "P" -> 80 [] c = "R" -> 82 [] c = "T" -> 84 [] c = "X" -> 88
    [] c = "a" -> 97 [] c = "t" -> 116 [] c = "x" -> 120
    [] OTHER -> 200

(***************************************************************************)
(* Typed values: the Python values a rule literal or a Lancamento field    *)
(* can be.  t is the Python type: "str", "num" (int/float of the rule      *)
(* document, in cents), "dec" (Decimal, in cents), "date", "list".         *)
(***************************************************************************)
S(x) == [t |-> "str", v |-> x]
N(n) == [t |-> "num", v |-> n]
Dec(n) == [t |-> "dec", v |-> n]
Dt(n) == [t |-> "date", v |-> n]
Lst(s) == [t |-> "list", v |-> s]

IsNumber(a) == a.t \in {"num", "dec"}

\* Python == between two scalar values
EqEscalar(a, b) ==
  \/ a.t = "str" /\ b.t = "str" /\ a.v = b.v
  \/ IsNumber(a) /\ IsNumber(b) /\ a.v = b.v
  \/ a.t = "date" /\ b.t = "date" /\ a.v = b.v

\* Python == between two values (lists compare element by element)
PyEq(a, b) ==
  IF a.t = "list" /\ b.t = "list"
  THEN /\ Len(a.v) = Len(b.v)
       /\ \A i \in 1..Len(a.v) : EqEscalar(a.v[i], b.v[i])
  ELSE IF a.t = "list" \/ b.t = "list" THEN FALSE
  ELSE EqEscalar(a, b)

\* Python str < str (lexicographic on code points)
RECURSIVE StrLt(_, _)
StrLt(a, b) ==
  IF b = <<>> THEN FALSE
  ELSE IF a = <<>> THEN TRUE
  ELSE IF Ord(Head(a)) < Ord(Head(b)) THEN TRUE
  ELSE IF Ord(Head(a)) > Ord(Head(b)) THEN FALSE
  ELSE StrLt(Tail(a), Tail(b))

\* Python a < b: "sim", "nao", or "raise" (TypeError between unordered types)
PyLt(a, b) ==
  IF IsNumber(a) /\ IsNumber(b) THEN (IF a.v < b.v THEN "sim" ELSE "nao")
  ELSE IF a.t = "date" /\ b.t = "date" THEN (IF a.v < b.v THEN "sim" ELSE "nao")
  ELSE IF a.t = "str" /\ b.t = "str" THEN (IF StrLt(a.v, b.v) THEN "sim" ELSE "nao")
  ELSE "raise"

\* value of a text made of digits only, in cents ("20" is 2000); <<>> when
\* the text is not a number (Decimal(...) raises InvalidOperation)
RECURSIVE DigitsValue(_, _)
DigitsValue(s, acc) ==
  IF s = <<>> THEN acc ELSE DigitsValue(Tail(s), acc * 10 + DigitVal(Head(s)))

\* Decimal(str(esperado)) of _op_greater_than / _op_less_than / _op_between
ToDecimal(e) ==
  IF IsNumber(e) THEN <<Dec(e.v)>>
  ELSE IF e.t = "str" /\ e.v # <<>> /\ \A i \in 1..Len(e.v) : DigitVal(e.v[i]) < 10
       THEN <<Dec(100 * DigitsValue(e.v, 0))>>
  ELSE <<>>

(***************************************************************************)
(* Objects of the model: the Lancamento and Comprovante instances a caller *)
(* can pass.  Both classes validate valor > 0 and normalise the            *)
(* description at construction.  CompObj[1] and CompObj[3] have equal      *)
(* field values and distinct identities.                                   *)
(***************************************************************************)
LancObj ==
  << [data |-> 5, valor |-> 1500, descricao |-> <<"T", "A", "X">>, tipo |-> "D"],
     [data |-> 5, valor |-> 1500, descricao |-> <<"P", "I", "X">>, tipo |-> "D"],
     [data |-> 7, valor |-> 1500, descricao |-> <<"P", "I", "X", " ", "A">>, tipo |-> "C"],
     [data |-> 5, valor |-> 9900, descricao |-> <<"T", "A", "X", " ", "P">>, tipo |-> "C"] >>

CompObj ==
  << [data |-> 5,  valor |-> 1500, beneficiario |-> <<>>, confianca_ocr |-> 0],
     [data |-> 8,  valor |-> 1500, beneficiario |-> <<"P", "I", "X">>, confianca_ocr |-> 0],
     [data |-> 5,  valor |-> 1500, beneficiario |-> <<>>, confianca_ocr |-> 0],
     [data |-> 14, valor |-> 1540, beneficiario |-> <<"A">>, confianca_ocr |-> 80],
     [data |-> 10, valor |-> 1500, beneficiario |-> <<>>, confianca_ocr |-> 90] >>

LancIds == 1..Len(LancObj)
CompIds == 1..Len(CompObj)

\* id(None): the identity conciliar adds to usados for a Match without receipt
Nenhum == 0

\* sequences over S of length at most n
SeqAte(Set, n) == UNION {[1..k -> Set] : k \in 0..n}

DigitChar(d) == <<"0", "1", "2", "3", "4", "5", "6", "7", "8", "9">>[d + 1]

\* decimal digits of a natural number
RECURSIVE Digits(_)
Digits(n) == IF n < 10 THEN <<DigitChar(n)>> ELSE Digits(n \div 10) \o <<DigitChar(n % 10)>>

\* Python str(x).  A Decimal prints with its two decimal places, a number of
\* the rule document prints as an int when it has no cents, a date prints in
\* ISO form (year and month of the model's day numbers are zero).
PyStr(a) ==
  CASE a.t = "str" -> a.v
    [] a.t = "dec" -> Digits(a.v \div 100) \o <<".">> \o <<DigitChar((a.v % 100) \div 10), DigitChar(a.v % 10)>>
    [] a.t = "num" -> IF a.v % 100 = 0 THEN Digits(a.v \div 100)
                      ELSE Digits(a.v \div 100) \o <<".">> \o <<DigitChar((a.v % 100) \div 10), DigitChar(a.v % 10)>>
    [] a.t = "date" -> <<"0", "0", "0", "0", "-", "0", "0", "-">> \o <<DigitChar((a.v % 100) \div 10), DigitChar(a.v % 10)>>
    [] OTHER -> <<"[", "]">>

(***************************************************************************)
(* Match (src/src/modelos/match.py).                                       *)
(***************************************************************************)
metodos_validos == {"exato", "fuzzy", "agregado", "regra", "manual"}

\* result of a call that returns a Match, returns None, or raises
RetMatch(m) == [tipo |-> "match", m |-> <<m>>]
RetNone == [tipo |-> "none", m |-> <<>>]
RetRaise == [tipo |-> "raise", m |-> <<>>]

\* variant: the range of confianca is not validated
NovoMatch_semFaixa(lanc, comp, confianca, metodo, observacoes) ==
  IF confianca = <<>> THEN RetRaise
  ELSE IF metodo \notin metodos_validos THEN RetRaise
  ELSE RetMatch([lancamento |-> lanc,
                 comprovante |-> comp,
                 confianca |-> confianca[1],
                 desvio |-> 0,
                 metodo |-> metodo,
                 observacoes |-> IF observacoes # <<>> THEN NormalizarEspacos(observacoes) ELSE <<>>,
                 confirmado |-> FALSE])

\* Match(...) with Match.__post_init__: validates confianca and metodo,
\* then cleans the observations with ' '.join(observacoes.split()).
\* confianca is <<>> for a Python None (the comparison raises TypeError).
\* The float stored in Match.confianca is kept as two fields: confianca, its
\* hundredths, and desvio, its distance in doubles from the literal.
NovoMatch(lanc, comp, confianca, metodo, observacoes) ==
  IF confianca = <<>> THEN RetRaise
  ELSE IF ~(0 <= confianca[1] /\ confianca[1] <= 100) THEN RetRaise
  ELSE IF metodo \notin metodos_validos THEN RetRaise
  ELSE RetMatch([lancamento |-> lanc,
                 comprovante |-> comp,
                 confianca |-> confianca[1],
                 desvio |-> 0,
                 metodo |-> metodo,
                 observacoes |-> IF observacoes # <<>> THEN NormalizarEspacos(observacoes) ELSE <<>>,
                 confirmado |-> FALSE])

(***************************************************************************)
(* EngineRegras (src/src/regras/engine.py).                                *)
(* A rule is [id, nome, prioridade, ativo, condicoes, acao]; prioridade    *)
(* and ativo are optional; acao is [tipo, confianca, observacao,           *)
(* categoria] with the last three optional.                                *)
(***************************************************************************)
Prioridade(r) == IF r.prioridade # <<>> THEN r.prioridade[1] ELSE 0

\* insert a <<key, item>> pair after every pair whose key is not smaller
InserirEstavel(par, s) ==
  LET n == Cardinality({i \in 1..Len(s) : s[i][1] >= par[1]})
  IN  SubSeq(s, 1, n) \o <<par>> \o SubSeq(s, n + 1, Len(s))

\* list.sort(key=..., reverse=True) on <<key, item>> pairs: descending and
\* stable (equal keys keep their original order)
RECURSIVE SortDesc(_)
SortDesc(s) ==
  IF s = <<>> THEN <<>>
  ELSE InserirEstavel(s[Len(s)], SortDesc(SubSeq(s, 1, Len(s) - 1)))

\* variant: the rules keep the order of the document
_ordenar_por_prioridade_semOrdenar(regras) == regras

_ordenar_por_prioridade(regras) ==
  LET pares == [i \in 1..Len(regras) |-> <<Prioridade(regras[i]), regras[i]>>]
      ord == SortDesc(pares)
  IN  [i \in 1..Len(ord) |-> ord[i][2]]

\* mapeamento.get(campo): <<>> for a field name outside the mapping
_obter_valor_campo(l, campo) ==
  CASE campo = "descricao" -> <<S(l.descricao)>>
    [] campo = "valor" -> <<Dec(l.valor)>>
    [] campo = "data" -> <<Dt(l.data)>>
    [] campo = "tipo" -> <<S(<<l.tipo>>)>>
    [] OTHER -> <<>>

Bool(b) == IF b THEN "true" ELSE "false"

_op_equals(valor, esperado) == Bool(PyEq(valor, esperado))

_op_not_equals(valor, esperado) == Bool(~PyEq(valor, esperado))

_op_contains(valor, esperado) ==
  LET v == UpperStr(PyStr(valor))
  IN  IF esperado.t = "list"
      THEN Bool(\E i \in 1..Len(esperado.v) : ContainsStr(UpperStr(PyStr(esperado.v[i])), v))
      ELSE Bool(ContainsStr(UpperStr(PyStr(esperado)), v))

_op_not_contains(valor, esperado) ==
  IF _op_contains(valor, esperado) = "true" THEN "false" ELSE "true"

\* one pattern character against one character, under re.IGNORECASE
CasaChar(p, c) == IF p = "." THEN c # "\n" ELSE Upper(p) = Upper(c)

\* re.search(esperado, valor, re.IGNORECASE): the patterns of the model are
\* literals with "." as wildcard; a pattern with "(" is an unbalanced group
\* (re.error, answered False); a pattern that is not a str raises TypeError
_op_regex(valor, esperado) ==
  LET v == PyStr(valor)
  IN  IF esperado.t # "str" THEN "raise"
      ELSE IF \E i \in 1..Len(esperado.v) : esperado.v[i] = "(" THEN "false"
      ELSE Bool(\E i \in 0..(Len(v) - Len(esperado.v)) :
                   \A k \in 1..Len(esperado.v) : CasaChar(esperado.v[k], v[i + k]))

\* the literal as compared with the field: Decimal(str(esperado)) when the
\* field is a Decimal, the literal itself otherwise; <<>> when it raises
Coagir(valor, esperado) == IF valor.t = "dec" THEN ToDecimal(esperado) ELSE <<esperado>>

\* the answer of an operator whose comparison answered lt
Menor(lt) == IF lt = "raise" THEN "raise" ELSE Bool(lt = "sim")

\* return valor > esperado, on the coerced literal e
MaiorQue(valor, e) == IF e = <<>> THEN "raise" ELSE Menor(PyLt(e[1], valor))

_op_greater_than(valor, esperado) == MaiorQue(valor, Coagir(valor, esperado))

\* return valor < esperado, on the coerced literal e
MenorQue(valor, e) == IF e = <<>> THEN "raise" ELSE Menor(PyLt(valor, e[1]))

_op_less_than(valor, esperado) == MenorQue(valor, Coagir(valor, esperado))

\* not (b < a), given the answer gt of b < a
NaoMaior(gt) == IF gt = "raise" THEN "raise" ELSE IF gt = "sim" THEN "false" ELSE "true"

\* Python a <= b
PyLe(a, b) == NaoMaior(PyLt(b, a))

\* a chained comparison: the second one is made when the first one holds
Encadear(primeira, segunda) == IF primeira # "true" THEN primeira ELSE segunda

\* return min_val <= valor <= max_val, on the coerced limits mn and mx
Entre(mn, valor, mx) ==
  IF mn = <<>> \/ mx = <<>> THEN "raise"
  ELSE Encadear(PyLe(mn[1], valor), PyLe(valor, mx[1]))

_op_between(valor, esperado) ==
  IF esperado.t # "list" THEN "false"
  ELSE IF Len(esperado.v) # 2 THEN "false"
  ELSE Entre(Coagir(valor, esperado.v[1]), valor, Coagir(valor, esperado.v[2]))

_op_in(valor, esperado) ==
  IF esperado.t # "list" THEN "false"
  ELSE Bool(\E i \in 1..Len(esperado.v) : PyEq(valor, esperado.v[i]))

_op_not_in(valor, esperado) ==
  IF _op_in(valor, esperado) = "true" THEN "false" ELSE "true"

\* variant: an operator that raises answers True
_aplicar_operador_erroAceita(valor, operador, esperado) ==
  LET r == CASE operador = "equals" -> _op_equals(valor, esperado)
             [] operador = "not_equals" -> _op_not_equals(valor, esperado)
             [] operador = "contains" -> _op_contains(valor, esperado)
             [] operador = "not_contains" -> _op_not_contains(valor, esperado)
             [] operador = "regex" -> _op_regex(valor, esperado)
             [] operador = "greater_than" -> _op_greater_than(valor, esperado)
             [] operador = "less_than" -> _op_less_than(valor, esperado)
             [] operador = "between" -> _op_between(valor, esperado)
             [] operador = "in" -> _op_in(valor, esperado)
             [] operador = "not_in" -> _op_not_in(valor, esperado)
             [] OTHER -> "false"
  IN  r # "false"

\* operadores.get(operador), the call, and the except that answers False
_aplicar_operador(valor, operador, esperado) ==
  LET r == CASE operador = "equals" -> _op_equals(valor, esperado)
             [] operador = "not_equals" -> _op_not_equals(valor, esperado)
             [] operador = "contains" -> _op_contains(valor, esperado)
             [] operador = "not_contains" -> _op_not_contains(valor, esperado)
             [] operador = "regex" -> _op_regex(valor, esperado)
             [] operador = "greater_than" -> _op_greater_than(valor, esperado)
             [] operador = "less_than" -> _op_less_than(valor, esperado)
             [] operador = "between" -> _op_between(valor, esperado)
             [] operador = "in" -> _op_in(valor, esperado)
             [] operador = "not_in" -> _op_not_in(valor, esperado)
             [] OTHER -> "false"
  IN  r = "true"

_avaliar_condicao(l, condicao) ==
  LET valor_lancamento == _obter_valor_campo(l, condicao.campo)
  IN  IF valor_lancamento = <<>> THEN FALSE
      ELSE _aplicar_operador(valor_lancamento[1], condicao.operador, condicao.valor)

\* the for loop returns False at the first condition that is not satisfied
_avaliar_regra(l, regra) ==
  \A i \in 1..Len(regra.condicoes) : _avaliar_condicao(l, regra.condicoes[i])

\* variant: the category is left out of the observations
_criar_match_semCategoria(lanc, regra) ==
  LET acao == regra.acao
      observacao_base == IF acao.observacao # <<>> THEN acao.observacao[1]
                         ELSE <<"Auto-conciliado", " ", "por", " ", "regra:", " ">> \o regra.nome
      confianca == IF acao.confianca # <<>> THEN acao.confianca ELSE <<85>>
  IN  NovoMatch(lanc, Nenhum, confianca, "regra",
                observacao_base \o <<"\n", "Regra:", " ">> \o regra.id)

\* variant: a rule of kind ignorar yields no Match
_criar_match_ignorarSemMatch(lanc, regra) ==
  IF regra.acao.tipo = "ignorar" THEN RetNone
  ELSE NovoMatch(lanc, Nenhum,
                 IF regra.acao.confianca # <<>> THEN regra.acao.confianca ELSE <<85>>, "regra",
                 (IF regra.acao.observacao # <<>> THEN regra.acao.observacao[1]
                  ELSE <<"Auto-conciliado", " ", "por", " ", "regra:", " ">> \o regra.nome)
                 \o <<"\n", "Regra:", " ">> \o regra.id
                 \o (IF regra.acao.categoria # <<>>
                     THEN <<"\n", "Categoria:", " ">> \o regra.acao.categoria[1] ELSE <<>>))

\* lanc is the identity of the Lancamento, regra the rule applied
_criar_match(lanc, regra) ==
  LET acao == regra.acao
      observacao_base == IF acao.observacao # <<>> THEN acao.observacao[1]
                         ELSE <<"Auto-conciliado", " ", "por", " ", "regra:", " ">> \o regra.nome
      comRegra == observacao_base \o <<"\n", "Regra:", " ">> \o regra.id
      observacao_completa == IF acao.categoria # <<>>
                             THEN comRegra \o <<"\n", "Categoria:", " ">> \o acao.categoria[1]
                             ELSE comRegra
      confianca == IF acao.confianca # <<>> THEN acao.confianca ELSE <<85>>
  IN  NovoMatch(lanc, Nenhum, confianca, "regra", observacao_completa)

\* variant: a satisfied rule whose confidence is below 0.60 is passed over
RECURSIVE processar_pulaBaixas(_, _, _)
processar_pulaBaixas(regras, lanc, k) ==
  IF k > Len(regras) THEN RetNone
  ELSE IF /\ _avaliar_regra(LancObj[lanc], regras[k])
          /\ (regras[k].acao.confianca = <<>> \/ regras[k].acao.confianca[1] >= 60)
       THEN _criar_match(lanc, regras[k])
  ELSE processar_pulaBaixas(regras, lanc, k + 1)

\* the first rule, in the engine's order, whose conditions are all satisfied
RECURSIVE processar(_, _, _)
processar(regras, lanc, k) ==
  IF k > Len(regras) THEN RetNone
  ELSE IF _avaliar_regra(LancObj[lanc], regras[k]) THEN _criar_match(lanc, regras[k])
  ELSE processar(regras, lanc, k + 1)
(***************************************************************************)
(* Strategies.  A strategy object is a record                              *)
(*   [classe, nome, prioridade, regras, tolerancia_dias, tolerancia_valor, *)
(*    usar_descricao, min_similaridade_descricao];                         *)
(* regras is the rule list of the engine of an EstrategiaRegras, the last  *)
(* four fields are the parameters of an EstrategiaExato.                   *)
(***************************************************************************)

\* EstrategiaBase.validar_match
validar_match(l, c) ==
  IF (l.valor > 0) # (c.valor > 0) THEN FALSE
  ELSE IF l.valor = 0 \/ c.valor = 0 THEN FALSE
  ELSE TRUE

_valores_compativeis(e, valor1, valor2) == Abs(valor1 - valor2) <= e.tolerancia_valor

\* variant: amounts half a unit apart count as equal in the score
_valores_exatos_meiaUnidade(valor1, valor2) == Abs(valor1 - valor2) <= 50

_valores_exatos(valor1, valor2) == valor1 = valor2

\* variant: the date gate lets every receipt pass
_datas_compativeis_semJanela(e, data1, data2) == TRUE

_datas_compativeis(e, data1, data2) == Abs(data1 - data2) <= e.tolerancia_dias

\* str.lower() on the alphabet of the model
Lower(c) ==
  CASE c = "T" -> "t" [] c = "A" -> "a" [] c = "X" -> "x"
    [] c = "P" -> "p" [] c = "I" -> "i" [] c = "R" -> "r"
    [] c = "C" -> "c" [] c = "D" -> "d"
    [] OTHER -> c

LowerStr(s) == [i \in 1..Len(s) |-> Lower(s[i])]

\* len(intersecao) / len(uniao) of two word sets
Jaccard(palavras1, palavras2) ==
  IF palavras1 \cup palavras2 = {} THEN <<0, 1>>
  ELSE <<Cardinality(palavras1 \cap palavras2), Cardinality(palavras1 \cup palavras2)>>

\* Jaccard similarity of the two word sets, as the pair <<|inter|, |union|>>;
\* <<0, 1>> stands for the 0.0 returned on an empty text
_calcular_similaridade_descricao(descricao1, descricao2) ==
  IF descricao1 = <<>> \/ descricao2 = <<>> THEN <<0, 1>>
  ELSE Jaccard(Range(Split(LowerStr(descricao1))), Range(Split(LowerStr(descricao2))))

\* variant: a difference of two days scores as the rest of the window
PontosData_doisDiasComoJanela(e, diff_dias) ==
  IF diff_dias = 0 THEN 30
  ELSE IF diff_dias = 1 THEN 25
  ELSE IF diff_dias <= e.tolerancia_dias THEN 15
  ELSE 0

\* variant: the same day is worth 0.40
PontosData_mesmoDiaQuarenta(e, diff_dias) ==
  IF diff_dias = 0 THEN 40
  ELSE IF diff_dias = 1 THEN 25
  ELSE IF diff_dias = 2 THEN 20
  ELSE IF diff_dias <= e.tolerancia_dias THEN 15
  ELSE 0

PontosData(e, diff_dias) ==
  IF diff_dias = 0 THEN 30
  ELSE IF diff_dias = 1 THEN 25
  ELSE IF diff_dias = 2 THEN 20
  ELSE IF diff_dias <= e.tolerancia_dias THEN 15
  ELSE 0

\* the points of a similarity sim = <<inter, union>> that reaches the minimum
PontosDescricao(e, sim) ==
  IF 100 * sim[1] >= e.min_similaridade_descricao * sim[2] THEN 15 ELSE 0

\* A Python float that stands for an amount of hundredths is the pair
\* <<h, d>>: h the hundredths, d the number of doubles between the value
\* and the double of the literal h/100 (0 for the literal itself).  The
\* order of the floats is the lexicographic order of the pairs.
Flt(h) == <<h, 0>>

\* a > b on floats
FloatGt(a, b) == a[1] > b[1] \/ (a[1] = b[1] /\ a[2] > b[2])

\* a >= b on floats
FloatGe(a, b) == a[1] > b[1] \/ (a[1] = b[1] /\ a[2] >= b[2])

\* match.confianca, the float a Match stores
ConfiancaDe(m) == <<m.confianca, m.desvio>>

\* the rounding of the IEEE 754 double addition x + p/100 (round to nearest,
\* ties to even) for the sums calcular_confianca forms: the distance of the
\* result from the double of the literal (x[1] + p)/100
Arredondamento(x, p) ==
  CASE x = <<30, 0>> /\ p = 15 -> 0 - 1
    [] x = <<35, 0>> /\ p = 5 -> 0 - 1
    [] x = <<45, 0 - 1>> /\ p = 5 -> 0 - 1
    [] x = <<65, 0>> /\ p = 5 -> 1
    [] x = <<80, 0>> /\ p = 5 -> 1
    [] x = <<80, 0>> /\ p = 15 -> 1
    [] x = <<90, 0>> /\ p = 5 -> 1
    [] OTHER -> 0

\* confianca += p/100
SomaFloat(x, p) == IF p = 0 THEN x ELSE <<x[1] + p, Arredondamento(x, p)>>

\* max(0.0, min(1.0, confianca))
Limitar(x) ==
  IF FloatGt(x, Flt(100)) THEN Flt(100) ELSE IF FloatGt(Flt(0), x) THEN Flt(0) ELSE x

\* EstrategiaExato.calcular_confianca: the float the four += steps leave
calcular_confianca(e, l, c) ==
  Limitar(
    SomaFloat(
      SomaFloat(
        SomaFloat(
          SomaFloat(Flt(0), IF _valores_exatos(l.valor, c.valor) THEN 50 ELSE 0),
          PontosData(e, Abs(l.data - c.data))),
        IF e.usar_descricao
        THEN PontosDescricao(e, _calcular_similaridade_descricao(l.descricao, c.beneficiario))
        ELSE 0),
      IF c.confianca_ocr # 0 /\ c.confianca_ocr >= 80 THEN 5 ELSE 0))

\* EstrategiaExato._gerar_observacoes: the parts joined by " | "
_gerar_observacoes(e, l, c, confianca) ==
  LET sep == <<" ", "|", " ">>
      nivel == IF FloatGe(confianca, Flt(90)) THEN <<"Alta confianca - Auto-aprovado">>
               ELSE IF FloatGe(confianca, Flt(60)) THEN <<"Media confianca - Revisar">>
               ELSE <<"Baixa confianca - Verificar manualmente">>
      diff_dias == Abs(l.data - c.data)
      datas == IF diff_dias = 0 THEN <<"Datas exatas">>
               ELSE <<"Datas com diferenca de">> \o Digits(diff_dias) \o <<"dia(s)">>
      valores == IF l.valor = c.valor THEN sep \o <<"Valores exatos">> ELSE <<>>
      ocr == IF c.confianca_ocr # 0 /\ c.confianca_ocr >= 80
             THEN sep \o <<"OCR confiavel">> \o Digits(c.confianca_ocr) ELSE <<>>
  IN  nivel \o sep \o datas \o valores \o ocr \o sep \o <<"Estrategia:">> \o e.nome

\* if observacoes: match.observacoes = observacoes, on the result r of Match(...)
AtribuirObservacoes(r, observacoes) ==
  IF r.tipo # "match" THEN r
  ELSE IF observacoes # <<>> THEN RetMatch([r.m[1] EXCEPT !.observacoes = observacoes])
  ELSE r

\* Match(confianca = x) for a float x that is not a literal: the fields of
\* the result r of Match(...) for its hundredths, with the distance d
ComDesvio(r, d) ==
  IF r.tipo # "match" THEN r ELSE RetMatch([r.m[1] EXCEPT !.desvio = d])

\* base.criar_match_com_confianca: the observations are assigned after the
\* construction, so Match.__post_init__ does not clean them
criar_match_com_confianca(lanc, comp, confianca, metodo, observacoes) ==
  IF ~(FloatGe(confianca, Flt(0)) /\ FloatGe(Flt(100), confianca)) THEN RetRaise
  ELSE AtribuirObservacoes(
         ComDesvio(NovoMatch(lanc, comp, <<confianca[1]>>, metodo, <<>>), confianca[2]),
         observacoes)

\* variant: the used set is not consulted
Candidato_ignoraUsados(e, l, cid, usados) ==
  /\ validar_match(l, CompObj[cid])
  /\ _valores_compativeis(e, l.valor, CompObj[cid].valor)
  /\ _datas_compativeis(e, l.data, CompObj[cid].data)

\* the gates a receipt passes before it is scored
Candidato(e, l, cid, usados) ==
  /\ cid \notin usados
  /\ validar_match(l, CompObj[cid])
  /\ _valores_compativeis(e, l.valor, CompObj[cid].valor)
  /\ _datas_compativeis(e, l.data, CompObj[cid].data)

\* variant: a receipt that ties with the best one replaces it
Melhor_empateTroca(acc, cid, confianca) ==
  IF FloatGe(confianca, acc.melhor_confianca)
  THEN [melhor_match |-> cid, melhor_confianca |-> confianca]
  ELSE acc

\* if confianca > melhor_confianca: the scored receipt becomes the best one
Melhor(acc, cid, confianca) ==
  IF FloatGt(confianca, acc.melhor_confianca)
  THEN [melhor_match |-> cid, melhor_confianca |-> confianca]
  ELSE acc

\* the for loop of EstrategiaExato.encontrar_match over comprovantes[k..]
RECURSIVE MelhorCandidato(_, _, _, _, _, _)
MelhorCandidato(e, l, comps, usados, k, acc) ==
  IF k > Len(comps) THEN acc
  ELSE MelhorCandidato(e, l, comps, usados, k + 1,
                       IF Candidato(e, l, comps[k], usados)
                       THEN Melhor(acc, comps[k], calcular_confianca(e, l, CompObj[comps[k]]))
                       ELSE acc)

\* the end of EstrategiaExato.encontrar_match, on the best receipt found
RetornarMelhor(e, lanc, melhor) ==
  IF melhor.melhor_match # Nenhum /\ FloatGe(melhor.melhor_confianca, Flt(60))
  THEN criar_match_com_confianca(lanc, melhor.melhor_match, melhor.melhor_confianca, "exato",
         _gerar_observacoes(e, LancObj[lanc], CompObj[melhor.melhor_match],
                            melhor.melhor_confianca))
  ELSE RetNone

\* EstrategiaExato.encontrar_match
Exato_encontrar_match(e, lanc, comps, usados) ==
  RetornarMelhor(e, lanc,
                 MelhorCandidato(e, LancObj[lanc], comps, usados, 1,
                                 [melhor_match |-> Nenhum, melhor_confianca |-> Flt(0)]))

\* EstrategiaRegras.encontrar_match: the receipts and the used set are ignored
Regras_encontrar_match(e, lanc) ==
  IF Len(e.regras) = 0 THEN RetNone
  ELSE processar(e.regras, lanc, 1)

\* the polymorphic call estrategia.encontrar_match(lancamento, comprovantes, usados)
encontrar_match(e, lanc, comps, usados) ==
  IF e.classe = "regras" THEN Regras_encontrar_match(e, lanc)
  ELSE Exato_encontrar_match(e, lanc, comps, usados)

\* EstrategiaExato(tolerancia_dias, tolerancia_valor, usar_descricao, min_similaridade_descricao)
EstrategiaExato(dias, valor, usar, minsim) ==
  [classe |-> "exato", nome |-> <<"Matching Exato">>, prioridade |-> 10, regras |-> <<>>,
   tolerancia_dias |-> dias, tolerancia_valor |-> valor,
   usar_descricao |-> usar, min_similaridade_descricao |-> minsim]

(***************************************************************************)
(* ParserRegras (src/src/regras/parser.py).  A rule file is a record:      *)
(* estado says what is on disk ("ausente": no file; "yaml_invalido": text  *)
(* that is not YAML; "vazio": an empty document; "sem_regras": a mapping   *)
(* without the key regras; "regras_nula": the key regras with no value;    *)
(* "regras": the key regras with a list), and entradas is that list.  An   *)
(* entry of the list holds the values of the rule (regra), the keys its    *)
(* mapping lacks (ausentes; acao_ausentes for the action; cond_ausentes    *)
(* for each condition) and the YAML types of condicoes and acao.           *)
(***************************************************************************)
Entrada(regra) ==
  [regra |-> regra, ausentes |-> {}, condicoes_tipo |-> "list", acao_tipo |-> "dict",
   cond_ausentes |-> [j \in 1..Len(regra.condicoes) |-> {}], acao_ausentes |-> {}]

Arquivo(estado, entradas) == [estado |-> estado, entradas |-> entradas]

\* a file whose key regras holds the given rules, every key present
Documento(regras) == Arquivo("regras", [i \in 1..Len(regras) |-> Entrada(regras[i])])

campos_obrigatorios == {"id", "nome", "condicoes", "acao"}

operadores_validos ==
  {"equals", "not_equals", "contains", "not_contains", "regex",
   "greater_than", "less_than", "between", "in", "not_in"}

tipos_validos == {"auto_aprovar", "sugerir", "ignorar"}

\* the loop over the conditions of one rule, from condition j: "" when none
\* is rejected, else the class of the exception raised
RECURSIVE ValidarCondicoes(_, _)
ValidarCondicoes(e, j) ==
  IF j > Len(e.regra.condicoes) THEN ""
  ELSE IF e.cond_ausentes[j] \cap {"campo", "operador", "valor"} # {} THEN "ValueError"
  ELSE IF e.regra.condicoes[j].operador \notin operadores_validos THEN "ValueError"
  ELSE ValidarCondicoes(e, j + 1)

\* ids = [r["id"] for r in self.regras]; ids.count(regra["id"])
ContarId(entradas, id) == Cardinality({j \in 1..Len(entradas) : entradas[j].regra.id = id})

\* variant: an empty id or nome is rejected
ValidarRegra_exigeIdNome(entradas, i) ==
  IF entradas[i].ausentes \cap campos_obrigatorios # {} THEN "ValueError"
  ELSE IF entradas[i].regra.id = <<>> \/ entradas[i].regra.nome = <<>> THEN "ValueError"
  ELSE IF \E j \in 1..Len(entradas) : "id" \in entradas[j].ausentes THEN "KeyError"
  ELSE IF ContarId(entradas, entradas[i].regra.id) > 1 THEN "ValueError"
  ELSE IF entradas[i].condicoes_tipo # "list" THEN "ValueError"
  ELSE IF Len(entradas[i].regra.condicoes) = 0 THEN "ValueError"
  ELSE IF ValidarCondicoes(entradas[i], 1) # "" THEN "ValueError"
  ELSE IF entradas[i].acao_tipo # "dict" THEN "ValueError"
  ELSE IF "tipo" \in entradas[i].acao_ausentes THEN "ValueError"
  ELSE IF entradas[i].regra.acao.tipo \notin tipos_validos THEN "ValueError"
  ELSE ""

\* the body of the loop of _validar_regras for the rule at i
ValidarRegra(entradas, i) ==
  IF entradas[i].ausentes \cap campos_obrigatorios # {} THEN "ValueError"
  ELSE IF \E j \in 1..Len(entradas) : "id" \in entradas[j].ausentes THEN "KeyError"
  ELSE IF ContarId(entradas, entradas[i].regra.id) > 1 THEN "ValueError"
  ELSE IF entradas[i].condicoes_tipo # "list" THEN "ValueError"
  ELSE IF Len(entradas[i].regra.condicoes) = 0 THEN "ValueError"
  ELSE IF ValidarCondicoes(entradas[i], 1) # "" THEN "ValueError"
  ELSE IF entradas[i].acao_tipo # "dict" THEN "ValueError"
  ELSE IF "tipo" \in entradas[i].acao_ausentes THEN "ValueError"
  ELSE IF entradas[i].regra.acao.tipo \notin tipos_validos THEN "ValueError"
  ELSE ""

\* ParserRegras._validar_regras, from the rule at i: "" when it returns,
\* else the class of the exception raised
RECURSIVE _validar_regras(_, _)
_validar_regras(entradas, i) ==
  IF i > Len(entradas) THEN ""
  ELSE IF ValidarRegra(entradas, i) # "" THEN ValidarRegra(entradas, i)
  ELSE _validar_regras(entradas, i + 1)

\* r.get("ativo", True)
Ativa(e) == e.regra.ativo = <<>> \/ e.regra.ativo[1]

\* regras_ativas = [r for r in self.regras if r.get("ativo", True)]
RegrasAtivas(entradas) ==
  [i \in 1..Len(SelectSeq(entradas, Ativa)) |-> SelectSeq(entradas, Ativa)[i].regra]

\* the outcome of carregar: erro is "" when it returns, and regras is then
\* the list returned
Carregado(erro, regras) == [erro |-> erro, regras |-> regras]

\* variant: the rule list is not validated
carregar_semValidar(arq) ==
  IF arq.estado = "ausente" THEN Carregado("FileNotFoundError", <<>>)
  ELSE IF arq.estado = "yaml_invalido" THEN Carregado("YAMLError", <<>>)
  ELSE IF arq.estado \in {"vazio", "sem_regras"} THEN Carregado("", <<>>)
  ELSE IF arq.estado = "regras_nula" THEN Carregado("TypeError", <<>>)
  ELSE Carregado("", RegrasAtivas(arq.entradas))

\* ParserRegras(arq).carregar()
carregar(arq) ==
  IF arq.estado = "ausente" THEN Carregado("FileNotFoundError", <<>>)
  ELSE IF arq.estado = "yaml_invalido" THEN Carregado("YAMLError", <<>>)
  ELSE IF arq.estado \in {"vazio", "sem_regras"} THEN Carregado("", <<>>)
  ELSE IF arq.estado = "regras_nula" THEN Carregado("TypeError", <<>>)
  ELSE IF _validar_regras(arq.entradas, 1) # ""
  THEN Carregado(_validar_regras(arq.entradas, 1), <<>>)
  ELSE Carregado("", RegrasAtivas(arq.entradas))

\* the try block of EstrategiaRegras._carregar_regras on the outcome of
\* carregar, and its two except clauses: the rule list of self.engine
EngineDe(carregado) ==
  IF carregado.erro = "" THEN _ordenar_por_prioridade(carregado.regras) ELSE <<>>

\* EstrategiaRegras._carregar_regras
_carregar_regras(arq) == EngineDe(carregar(arq))

\* EstrategiaRegras(arquivo_regras) where the file is arq
EstrategiaRegras(arq) ==
  [classe |-> "regras", nome |-> <<"Regras YAML">>, prioridade |-> 20,
   regras |-> _carregar_regras(arq),
   tolerancia_dias |-> 0, tolerancia_valor |-> 0,
   usar_descricao |-> FALSE, min_similaridade_descricao |-> 0]
(***************************************************************************)
(* Rule documents of the model.                                            *)
(***************************************************************************)
Cond(campo, operador, valor) == [campo |-> campo, operador |-> operador, valor |-> valor]

\* description contains "tax" and type is D: confidence 0.95, with
\* observation text and category
RegraTarifa ==
  [id |-> <<"r", "1">>, nome |-> <<"T", "a", "x">>, prioridade |-> <<10>>, ativo |-> <<>>,
   condicoes |-> << Cond("descricao", "contains", S(<<"t", "a", "x">>)),
                    Cond("tipo", "equals", S(<<"D">>)) >>,
   acao |-> [tipo |-> "auto_aprovar", confianca |-> <<95>>,
             observacao |-> << <<"T", "a", "x", " ", " ", "o", "k", "\n">> >>,
             categoria |-> << <<"D", " ", "B">> >>]]

\* every debit, with a confidence below the default minimum
RegraBaixa ==
  [id |-> <<"r", "2">>, nome |-> <<"B">>, prioridade |-> <<20>>, ativo |-> <<>>,
   condicoes |-> << Cond("tipo", "equals", S(<<"D">>)) >>,
   acao |-> [tipo |-> "sugerir", confianca |-> <<50>>,
             observacao |-> << <<"l", "o", "w">> >>, categoria |-> <<>>]]

\* amounts below 20.00; no priority, confidence, observation or category
RegraPadrao ==
  [id |-> <<"r", "3">>, nome |-> <<"P", " ", "d">>, prioridade |-> <<>>, ativo |-> <<>>,
   condicoes |-> << Cond("valor", "less_than", N(2000)) >>,
   acao |-> [tipo |-> "ignorar", confianca |-> <<>>, observacao |-> <<>>, categoria |-> <<>>]]

\* every credit, with a confidence outside [0, 1]
RegraInvalida ==
  [id |-> <<"r", "4">>, nome |-> <<"I">>, prioridade |-> <<10>>, ativo |-> <<>>,
   condicoes |-> << Cond("tipo", "equals", S(<<"C">>)) >>,
   acao |-> [tipo |-> "auto_aprovar", confianca |-> <<150>>,
             observacao |-> <<>>, categoria |-> <<>>]]

\* credits between 10.00 and 20.00 dated after day 5
RegraCredito ==
  [id |-> <<"r", "5">>, nome |-> <<"C">>, prioridade |-> <<10>>, ativo |-> <<>>,
   condicoes |-> << Cond("valor", "between", Lst(<<N(1000), S(<<"2", "0">>)>>)),
                    Cond("data", "greater_than", Dt(5)),
                    Cond("tipo", "in", Lst(<<S(<<"C">>)>>)) >>,
   acao |-> [tipo |-> "auto_aprovar", confianca |-> <<90>>,
             observacao |-> << <<"c", "r">> >>, categoria |-> <<>>]]

\* the rule documents an EstrategiaRegras of the motor is loaded from
DocsMotor ==
  { <<>>,
    <<RegraPadrao, RegraTarifa>>,
    <<RegraTarifa, RegraBaixa>>,
    <<RegraInvalida, RegraCredito, RegraPadrao>> }

(***************************************************************************)
(* MotorConciliacao (src/src/conciliacao/motor.py).                        *)
(***************************************************************************)
\* variant: reverse=True is missing; ascending order, the reversed list for
\* strategies inserted in descending order
OrdenarEstrategias_crescente(es) == [i \in 1..Len(es) |-> es[Len(es) + 1 - i]]

\* self.estrategias.sort(key=lambda e: e.prioridade, reverse=True)
OrdenarEstrategias(es) ==
  LET pares == [i \in 1..Len(es) |-> <<es[i].prioridade, es[i]>>]
      ord == SortDesc(pares)
  IN  [i \in 1..Len(ord) |-> ord[i][2]]

\* MotorConciliacao.__init__: the two default strategies, sorted
EstrategiasPadrao(arq) ==
  OrdenarEstrategias(<<EstrategiaRegras(arq), EstrategiaExato(3, 0, FALSE, 70)>>)

ConfigPadrao ==
  [tolerancia_dias |-> 3, tolerancia_valor |-> 50,
   confianca_minima |-> 60, confianca_auto_aprovar |-> 90]

\* the locals of conciliar: the Match list, the used set, and two records
\* kept for the analysis: the strategy calls made (lanc and estrategia are
\* positions in the lists) and, for each Match, the position of its transaction
EstadoInicial == [matches |-> <<>>, usados |-> {}, chamadas |-> <<>>, origens |-> <<>>]

Chamada(i, j, resultado) == [lanc |-> i, estrategia |-> j, resultado |-> resultado]

\* variant: every Match a strategy returns is accepted
Aceita_semMinima(cfg, m) == TRUE

\* if match.confianca >= self.config["confianca_minima"]
Aceita(cfg, m) == FloatGe(ConfiancaDe(m), Flt(cfg.confianca_minima))

\* variant: the accepted receipt is not recorded as used
MarcarUsado_esquece(usados, m) == usados

\* variant: a Match without receipt takes every receipt
MarcarUsado_regraConsome(usados, m) ==
  IF m.comprovante = Nenhum THEN usados \cup CompIds ELSE usados \cup {m.comprovante}

\* usados.add(id(match.comprovante)); id(None) for a Match without receipt
MarcarUsado(usados, m) == usados \cup {m.comprovante}

\* variant: an error of a strategy ends the cascade of the transaction
TratarResultado_erroEncerra(cfg, st, i, j, r) ==
  IF r.tipo = "raise"
  THEN [st |-> [st EXCEPT !.chamadas = Append(@, Chamada(i, j, "raise"))], parar |-> TRUE]
  ELSE IF r.tipo = "none"
  THEN [st |-> [st EXCEPT !.chamadas = Append(@, Chamada(i, j, "none"))], parar |-> FALSE]
  ELSE IF Aceita(cfg, r.m[1])
  THEN [st |-> [matches |-> Append(st.matches, r.m[1]),
                usados |-> MarcarUsado(st.usados, r.m[1]),
                chamadas |-> Append(st.chamadas, Chamada(i, j, "aceito")),
                origens |-> Append(st.origens, i)],
        parar |-> TRUE]
  ELSE [st |-> [st EXCEPT !.chamadas = Append(@, Chamada(i, j, "baixa"))], parar |-> FALSE]

\* variant: the break after an accepted Match is missing
TratarResultado_semBreak(cfg, st, i, j, r) ==
  IF r.tipo = "raise"
  THEN [st |-> [st EXCEPT !.chamadas = Append(@, Chamada(i, j, "raise"))], parar |-> FALSE]
  ELSE IF r.tipo = "none"
  THEN [st |-> [st EXCEPT !.chamadas = Append(@, Chamada(i, j, "none"))], parar |-> FALSE]
  ELSE IF Aceita(cfg, r.m[1])
  THEN [st |-> [matches |-> Append(st.matches, r.m[1]),
                usados |-> MarcarUsado(st.usados, r.m[1]),
                chamadas |-> Append(st.chamadas, Chamada(i, j, "aceito")),
                origens |-> Append(st.origens, i)],
        parar |-> FALSE]
  ELSE [st |-> [st EXCEPT !.chamadas = Append(@, Chamada(i, j, "baixa"))], parar |-> FALSE]

\* variant: the receipt of a discarded Match is recorded as used
TratarResultado_baixaConsome(cfg, st, i, j, r) ==
  IF r.tipo = "raise"
  THEN [st |-> [st EXCEPT !.chamadas = Append(@, Chamada(i, j, "raise"))], parar |-> FALSE]
  ELSE IF r.tipo = "none"
  THEN [st |-> [st EXCEPT !.chamadas = Append(@, Chamada(i, j, "none"))], parar |-> FALSE]
  ELSE IF Aceita(cfg, r.m[1])
  THEN [st |-> [matches |-> Append(st.matches, r.m[1]),
                usados |-> MarcarUsado(st.usados, r.m[1]),
                chamadas |-> Append(st.chamadas, Chamada(i, j, "aceito")),
                origens |-> Append(st.origens, i)],
        parar |-> TRUE]
  ELSE [st |-> [st EXCEPT !.chamadas = Append(@, Chamada(i, j, "baixa")),
                          !.usados = MarcarUsado(@, r.m[1])],
        parar |-> FALSE]

\* the body of the try block for the result r of strategy j on the
\* transaction at i, and the except clause: the new locals, and whether the
\* loop over the strategies stops (break)
TratarResultado(cfg, st, i, j, r) ==
  IF r.tipo = "raise"
  THEN [st |-> [st EXCEPT !.chamadas = Append(@, Chamada(i, j, "raise"))], parar |-> FALSE]
  ELSE IF r.tipo = "none"
  THEN [st |-> [st EXCEPT !.chamadas = Append(@, Chamada(i, j, "none"))], parar |-> FALSE]
  ELSE IF Aceita(cfg, r.m[1])
  THEN [st |-> [matches |-> Append(st.matches, r.m[1]),
                usados |-> MarcarUsado(st.usados, r.m[1]),
                chamadas |-> Append(st.chamadas, Chamada(i, j, "aceito")),
                origens |-> Append(st.origens, i)],
        parar |-> TRUE]
  ELSE [st |-> [st EXCEPT !.chamadas = Append(@, Chamada(i, j, "baixa"))], parar |-> FALSE]

\* variant: the exact strategy is called with the tolerances of the config
encontrar_match_comConfig(e, cfg, lanc, comps, usados) ==
  IF e.classe = "regras" THEN Regras_encontrar_match(e, lanc)
  ELSE Exato_encontrar_match([e EXCEPT !.tolerancia_dias = cfg.tolerancia_dias,
                                       !.tolerancia_valor = cfg.tolerancia_valor],
                             lanc, comps, usados)

\* variant: the strategies are given the tolerances of the motor's config
RECURSIVE LoopEstrategias_comConfig(_, _, _, _, _, _, _)
LoopEstrategias_comConfig(es, cfg, lancs, comps, i, j, t) ==
  IF t.parar \/ j > Len(es) THEN t.st
  ELSE LoopEstrategias_comConfig(es, cfg, lancs, comps, i, j + 1,
                                 TratarResultado(cfg, t.st, i, j,
                                                 encontrar_match_comConfig(es[j], cfg, lancs[i],
                                                                           comps, t.st.usados)))

\* the inner for loop of conciliar: strategies j.. for the transaction at i;
\* t holds the locals and whether the loop was left by break
RECURSIVE LoopEstrategias(_, _, _, _, _, _, _)
LoopEstrategias(es, cfg, lancs, comps, i, j, t) ==
  IF t.parar \/ j > Len(es) THEN t.st
  ELSE LoopEstrategias(es, cfg, lancs, comps, i, j + 1,
                       TratarResultado(cfg, t.st, i, j,
                                       encontrar_match(es[j], lancs[i], comps, t.st.usados)))

\* the outer for loop of conciliar: transactions i..
RECURSIVE LoopLancamentos(_, _, _, _, _, _)
LoopLancamentos(es, cfg, lancs, comps, i, st) ==
  IF i > Len(lancs) THEN st
  ELSE LoopLancamentos(es, cfg, lancs, comps, i + 1,
                       LoopEstrategias(es, cfg, lancs, comps, i, 1,
                                       [st |-> st, parar |-> FALSE]))

\* variant: the two validations at the top of conciliar are missing
conciliar_semValidacao(es, cfg, lancs, comps) ==
  [erro |-> "", st |-> LoopLancamentos(es, cfg, lancs, comps, 1, EstadoInicial)]

\* MotorConciliacao.conciliar: erro is "" when the call returns
conciliar(es, cfg, lancs, comps) ==
  IF lancs = <<>> THEN [erro |-> "ValueError", st |-> EstadoInicial]
  ELSE IF es = <<>> THEN [erro |-> "ConciliacaoError", st |-> EstadoInicial]
  ELSE [erro |-> "", st |-> LoopLancamentos(es, cfg, lancs, comps, 1, EstadoInicial)]

\* the predicates a caller passes to conciliar_com_filtros: "nenhum" is
\* None, the others are lambdas over a Lancamento or over a Comprovante
FiltrosLancamento == {"nenhum", "debitos", "acima_de_20"}
FiltrosComprovante == {"nenhum", "ate_dia_5"}

\* filtro_lancamento(l)
filtro_lancamento(f, lanc) ==
  IF f = "debitos" THEN LancObj[lanc].tipo = "D" ELSE LancObj[lanc].valor > 2000

\* filtro_comprovante(c)
filtro_comprovante(f, comp) == CompObj[comp].data <= 5

\* filtro(x) of the list comprehension over the list named by qual
filtro(qual, f, x) ==
  IF qual = "lancamentos" THEN filtro_lancamento(f, x) ELSE filtro_comprovante(f, x)

\* [x for x in lista if filtro(x)], from position k
RECURSIVE Filtrar(_, _, _, _)
Filtrar(qual, f, lista, k) ==
  IF k > Len(lista) THEN <<>>
  ELSE IF filtro(qual, f, lista[k]) THEN <<lista[k]>> \o Filtrar(qual, f, lista, k + 1)
  ELSE Filtrar(qual, f, lista, k + 1)

\* lanc_filtrados: if filtro_lancamento: the list comprehension
lanc_filtrados(lancs, fl) ==
  IF fl # "nenhum" THEN Filtrar("lancamentos", fl, lancs, 1) ELSE lancs

\* comp_filtrados: if filtro_comprovante: the list comprehension
comp_filtrados(comps, fc) ==
  IF fc # "nenhum" THEN Filtrar("comprovantes", fc, comps, 1) ELSE comps

\* variant: the receipts are not filtered
conciliar_com_filtros_semComprovantes(es, cfg, lancs, comps, fl, fc) ==
  conciliar(es, cfg, lanc_filtrados(lancs, fl), comps)

\* MotorConciliacao.conciliar_com_filtros
conciliar_com_filtros(es, cfg, lancs, comps, fl, fc) ==
  conciliar(es, cfg, lanc_filtrados(lancs, fl), comp_filtrados(comps, fc))

\* self, as a method reads it
Motor(es, cfg, tempo, total) ==
  [estrategias |-> es, config |-> cfg, _tempo_total |-> tempo, _total_conciliacoes |-> total]

\* a float quotient num / den, kept as the exact fraction
Razao(num, den) == [num |-> num, den |-> den]

\* sum(m.confianca for m in matches), from position k
RECURSIVE SomaConfianca(_, _)
SomaConfianca(matches, k) ==
  IF k > Len(matches) THEN 0 ELSE matches[k].confianca + SomaConfianca(matches, k + 1)

\* sum(m.lancamento.valor for m in matches), from position k
RECURSIVE SomaValor(_, _)
SomaValor(matches, k) ==
  IF k > Len(matches) THEN 0
  ELSE LancObj[matches[k].lancamento].valor + SomaValor(matches, k + 1)

\* min(...) and max(...) of the confidences of a non-empty list
MinConfianca(matches) ==
  CHOOSE c \in {matches[k].confianca : k \in 1..Len(matches)} :
    \A k \in 1..Len(matches) : c <= matches[k].confianca

MaxConfianca(matches) ==
  CHOOSE c \in {matches[k].confianca : k \in 1..Len(matches)} :
    \A k \in 1..Len(matches) : c >= matches[k].confianca

\* sum(1 for m in matches if minimo <= m.confianca < maximo)
ContarFaixa(matches, minimo, maximo) ==
  Cardinality({k \in 1..Len(matches) :
                 /\ FloatGe(ConfiancaDe(matches[k]), Flt(minimo))
                 /\ ~FloatGe(ConfiancaDe(matches[k]), Flt(maximo))})

\* por_metodo[metodo] = por_metodo.get(metodo, 0) + 1, over the matches
por_metodo(matches) ==
  [metodo \in {matches[k].metodo : k \in 1..Len(matches)} |->
     Cardinality({k \in 1..Len(matches) : matches[k].metodo = metodo})]

\* the dictionary gerar_estatisticas returns
Estatisticas(total_lancamentos, total_matches, taxa, media, minima, maxima, auto, revisao, valor_total, metodos, alta, media_faixa, baixa) ==
  [total_lancamentos |-> total_lancamentos, total_matches |-> total_matches,
   taxa_conciliacao |-> taxa, confianca_media |-> media,
   confianca_min |-> minima, confianca_max |-> maxima,
   auto_aprovados |-> auto, requer_revisao |-> revisao,
   valor_total_conciliado |-> valor_total, por_metodo |-> metodos,
   por_confianca |-> [alta |-> alta, media |-> media_faixa, baixa |-> baixa]]

\* the dictionary returned for an empty match list
EstatisticasVazias(lancs) ==
  Estatisticas(Len(lancs), 0, Razao(0, 1), Razao(0, 1), 0, 0, 0, 0, 0, por_metodo(<<>>), 0, 0, 0)

\* auto_aprovados = sum(1 for m in matches if m.confianca >= threshold_auto)
auto_aprovados(threshold_auto, matches) ==
  Cardinality({k \in 1..Len(matches) : FloatGe(ConfiancaDe(matches[k]), Flt(threshold_auto))})

\* the outcome of gerar_estatisticas: erro is "" when it returns
Gerado(erro, saida) == [erro |-> erro, saida |-> saida]

\* variant: the rate is taken over the runs the motor has counted
gerar_estatisticas_lendoContador(self, matches, lancs) ==
  IF Len(matches) = 0 THEN Gerado("", EstatisticasVazias(lancs))
  ELSE IF Len(lancs) = 0 THEN Gerado("ZeroDivisionError", EstatisticasVazias(lancs))
  ELSE Gerado("",
         Estatisticas(Len(lancs), Len(matches),
                      Razao(Len(matches), Len(lancs) + self._total_conciliacoes),
                      Razao(SomaConfianca(matches, 1), Len(matches)),
                      MinConfianca(matches), MaxConfianca(matches),
                      auto_aprovados(self.config.confianca_auto_aprovar, matches),
                      Len(matches) - auto_aprovados(self.config.confianca_auto_aprovar, matches),
                      SomaValor(matches, 1), por_metodo(matches),
                      ContarFaixa(matches, 90, 101), ContarFaixa(matches, 70, 90),
                      ContarFaixa(matches, 60, 70)))

\* variant: the auto-approval threshold is the constant 0.90
gerar_estatisticas_limiarFixo(self, matches, lancs) ==
  IF Len(matches) = 0 THEN Gerado("", EstatisticasVazias(lancs))
  ELSE IF Len(lancs) = 0 THEN Gerado("ZeroDivisionError", EstatisticasVazias(lancs))
  ELSE Gerado("",
         Estatisticas(Len(lancs), Len(matches),
                      Razao(Len(matches), Len(lancs)),
                      Razao(SomaConfianca(matches, 1), Len(matches)),
                      MinConfianca(matches), MaxConfianca(matches),
                      auto_aprovados(90, matches),
                      Len(matches) - auto_aprovados(90, matches),
                      SomaValor(matches, 1), por_metodo(matches),
                      ContarFaixa(matches, 90, 101), ContarFaixa(matches, 70, 90),
                      ContarFaixa(matches, 60, 70)))

\* MotorConciliacao.gerar_estatisticas: total_matches / total_lancamentos
\* raises ZeroDivisionError for matches with an empty transaction list
gerar_estatisticas(self, matches, lancs) ==
  IF Len(matches) = 0 THEN Gerado("", EstatisticasVazias(lancs))
  ELSE IF Len(lancs) = 0 THEN Gerado("ZeroDivisionError", EstatisticasVazias(lancs))
  ELSE Gerado("",
         Estatisticas(Len(lancs), Len(matches),
                      Razao(Len(matches), Len(lancs)),
                      Razao(SomaConfianca(matches, 1), Len(matches)),
                      MinConfianca(matches), MaxConfianca(matches),
                      auto_aprovados(self.config.confianca_auto_aprovar, matches),
                      Len(matches) - auto_aprovados(self.config.confianca_auto_aprovar, matches),
                      SomaValor(matches, 1), por_metodo(matches),
                      ContarFaixa(matches, 90, 101), ContarFaixa(matches, 70, 90),
                      ContarFaixa(matches, 60, 70)))

\* the attributes of a MotorConciliacao: the methods of the class and the
\* attributes __init__ assigns
AtributosDoMotor ==
  {"conciliar", "conciliar_com_filtros", "gerar_estatisticas", "gerar_relatorio",
   "_gerar_relatorio_texto", "_gerar_relatorio_markdown", "calcular_taxa_conciliacao",
   "obter_performance", "estrategias", "config", "_tempo_total", "_total_conciliacoes"}

\* the lookup motor.<nome>: "" when the attribute exists
ObterAtributo(nome) == IF nome \in AtributosDoMotor THEN "" ELSE "AttributeError"

(***************************************************************************)
(* The motor as a state machine.                                           *)
(***************************************************************************)
VARIABLES
  estrategias,          \* motor.estrategias
  config,               \* motor.config
  _tempo_total,         \* motor._tempo_total, in time units
  _total_conciliacoes,  \* motor._total_conciliacoes
  lancamentos,          \* the caller's transaction list (object identities)
  comprovantes,         \* the caller's receipt list (object identities)
  retorno,              \* outcome of the last conciliar call on the current motor
  engine,               \* an EngineRegras and its last processar call
  exato,                \* an EstrategiaExato and its last encontrar_match call
  arquivo,              \* a rule file on disk
  parser,               \* a ParserRegras on that file and its last carregar call
  chamada,              \* the last call of another method of the motor, or of
                        \* criar_motor_padrao: its arguments and its outcome
  ciclo,                \* a Match, the conciliado flags of the Lancamento and
                        \* Comprovante objects, and the last call on the Match
  calculo               \* a call of a function that reads no state: its name,
                        \* its arguments and its result

vars == <<estrategias, config, _tempo_total, _total_conciliacoes, lancamentos, comprovantes,
          retorno, engine, exato, arquivo, parser, chamada, ciclo, calculo>>

\* the state outside the motor, the engine and the exact strategy
demais == <<arquivo, parser, chamada, ciclo, calculo>>

\* no conciliar call has been made since the motor was last configured
SemChamada == [erro |-> "sem chamada", st |-> EstadoInicial]

\* the transactions and the receipts of the motor scenarios
LancsMotor == {1, 2, 3}
CompsMotor == {1, 2, 3}

\* elapsed times of one run, in time units
Decorrido == {0, 1}

\* values a caller assigns to config["confianca_minima"]
Minimas == {60, 70}

\* strategy lists a caller assigns to motor.estrategias
ListasAtribuidas ==
  { <<>>,
    <<EstrategiaExato(3, 0, FALSE, 70)>> }

\* the engine and the strategy of the scenarios that do not use them
EngineOcioso == [doc |-> <<>>, regras |-> <<>>, lanc |-> 0, ret |-> RetNone]

ExatoOcioso ==
  [e |-> EstrategiaExato(3, 0, FALSE, 70), lanc |-> 1, comps |-> <<>>, usados |-> {},
   chamado |-> FALSE, ret |-> RetNone]

ParserOcioso == [chamado |-> FALSE, ret |-> Carregado("", <<>>)]

\* a call of a method: erro is "" when it returned
ChamadaDe(op, erro, args, ret) == [op |-> op, erro |-> erro, args |-> args, ret |-> ret]

SemOutraChamada == ChamadaDe("nenhuma", "", <<>>, <<>>)

\* a Match object with the fields confirmar and desfazer write (m, usuario),
\* the Lancamento and Comprovante objects whose conciliado is True (lancs,
\* comps), and three records kept for the analysis: the flags at the start,
\* the last call, and whether confirmar was ever called
Ciclo(m, usuario, lancs, comps, inicio, ultima, ja_confirmou) ==
  [m |-> m, usuario |-> usuario, lancs |-> lancs, comps |-> comps,
   inicio |-> inicio, ultima |-> ultima, ja_confirmou |-> ja_confirmou]

CicloOcioso ==
  Ciclo(NovoMatch(1, Nenhum, <<85>>, "regra", <<>>).m[1], <<>>, {}, {},
        [lancs |-> {}, comps |-> {}], "", FALSE)

\* a call f(args) and the value it returned; <<>> before the call
Calculo(op, args, ret) == [op |-> op, args |-> args, ret |-> ret]

CalculoOcioso == Calculo("nenhum", <<>>, <<>>)

DemaisOciosas ==
  /\ arquivo = Arquivo("ausente", <<>>)
  /\ parser = ParserOcioso
  /\ chamada = SemOutraChamada
  /\ ciclo = CicloOcioso
  /\ calculo = CalculoOcioso

Init ==
  /\ engine = EngineOcioso
  /\ exato = ExatoOcioso
  /\ DemaisOciosas
  /\ \E doc \in DocsMotor : estrategias = EstrategiasPadrao(Documento(doc))
  /\ config = ConfigPadrao
  /\ _tempo_total = 0
  /\ _total_conciliacoes = 0
  /\ lancamentos \in SeqAte(LancsMotor, MaxLanc)
  /\ comprovantes \in SeqAte(CompsMotor, MaxComp)
  /\ retorno = SemChamada

\* variant: the call marks the objects of its Matches as reconciled
ConciliarAte_marcaConciliados(n) ==
  /\ UNCHANGED <<estrategias, config, lancamentos, comprovantes, engine, exato,
                 arquivo, parser, chamada, calculo>>
  /\ _total_conciliacoes < n \/ lancamentos = <<>> \/ estrategias = <<>>
  /\ retorno' = conciliar(estrategias, config, lancamentos, comprovantes)
  /\ ciclo' = [ciclo EXCEPT !.lancs = @ \cup {retorno'.st.matches[k].lancamento : k \in 1..Len(retorno'.st.matches)}]
  /\ IF retorno'.erro = ""
     THEN /\ \E dt \in Decorrido : _tempo_total' = _tempo_total + dt
          /\ _total_conciliacoes' = _total_conciliacoes + 1
     ELSE UNCHANGED <<_tempo_total, _total_conciliacoes>>

\* matches = motor.conciliar(lancamentos, comprovantes)
\* (at most n calls run to completion; a call that fails on its input is
\* not counted)
ConciliarAte(n) ==
  /\ UNCHANGED <<estrategias, config, lancamentos, comprovantes, engine, exato, demais>>
  /\ _total_conciliacoes < n \/ lancamentos = <<>> \/ estrategias = <<>>
  /\ retorno' = conciliar(estrategias, config, lancamentos, comprovantes)
  /\ IF retorno'.erro = ""
     THEN /\ \E dt \in Decorrido : _tempo_total' = _tempo_total + dt
          /\ _total_conciliacoes' = _total_conciliacoes + 1
     ELSE UNCHANGED <<_tempo_total, _total_conciliacoes>>

Conciliar == ConciliarAte(MaxRuns)

\* motor.config["confianca_minima"] = v
AtribuirConfiancaMinima ==
  /\ \E v \in Minimas :
       /\ v # config.confianca_minima
       /\ config' = [config EXCEPT !.confianca_minima = v]
  /\ retorno' = SemChamada
  /\ UNCHANGED <<estrategias, _tempo_total, _total_conciliacoes, lancamentos, comprovantes,
                 engine, exato, demais>>

\* motor.estrategias = lista
AtribuirEstrategias ==
  /\ \E lista \in ListasAtribuidas :
       /\ lista # estrategias
       /\ estrategias' = lista
  /\ retorno' = SemChamada
  /\ UNCHANGED <<config, _tempo_total, _total_conciliacoes, lancamentos, comprovantes,
                 engine, exato, demais>>

Next ==
  \/ Conciliar
  \/ AtribuirConfiancaMinima
  \/ AtribuirEstrategias

Spec == Init /\ [][Next]_vars
(***************************************************************************)
(* The rule engine on its own: an EngineRegras built on a rule list, and   *)
(* processar applied to a transaction.                                     *)
(***************************************************************************)
MaxRegras == 2

RegrasCatalogo == {RegraTarifa, RegraBaixa, RegraPadrao, RegraInvalida, RegraCredito}

motorParado == <<estrategias, config, _tempo_total, _total_conciliacoes, lancamentos,
                 comprovantes, retorno>>

MotorInicial ==
  /\ estrategias = EstrategiasPadrao(Documento(<<>>))
  /\ config = ConfigPadrao
  /\ _tempo_total = 0
  /\ _total_conciliacoes = 0
  /\ lancamentos = <<>>
  /\ comprovantes = <<>>
  /\ retorno = SemChamada

\* EngineRegras(doc): doc is kept to compare with the order of the document
InitEngine ==
  /\ MotorInicial
  /\ exato = ExatoOcioso
  /\ DemaisOciosas
  /\ \E doc \in SeqAte(RegrasCatalogo, MaxRegras) :
       engine = [doc |-> doc, regras |-> _ordenar_por_prioridade(doc),
                 lanc |-> 0, ret |-> RetNone]

\* match = engine.processar(lancamento)
Processar ==
  /\ \E l \in LancIds :
       engine' = [engine EXCEPT !.lanc = l, !.ret = processar(engine.regras, l, 1)]
  /\ UNCHANGED <<motorParado, exato, demais>>

NextEngine == Processar

SpecEngine == InitEngine /\ [][NextEngine]_vars

(***************************************************************************)
(* The exact strategy on its own: an EstrategiaExato with its parameters,  *)
(* and encontrar_match applied to a transaction, a receipt list and a set  *)
(* of used identities.                                                     *)
(***************************************************************************)
ToleranciasDias == {1, 3, 10}
ToleranciasValor == {0, 50}

InitExato ==
  /\ MotorInicial
  /\ engine = EngineOcioso
  /\ DemaisOciosas
  /\ \E d \in ToleranciasDias, v \in ToleranciasValor, u \in BOOLEAN, l \in LancIds,
        cs \in SeqAte(CompIds, MaxComp), us \in SUBSET CompIds :
       exato = [e |-> EstrategiaExato(d, v, u, 70), lanc |-> l, comps |-> cs, usados |-> us,
                chamado |-> FALSE, ret |-> RetNone]

\* match = estrategia.encontrar_match(lancamento, comprovantes, usados)
ExatoEncontrarMatch ==
  /\ ~exato.chamado
  /\ exato' = [exato EXCEPT !.chamado = TRUE,
                            !.ret = Exato_encontrar_match(exato.e, exato.lanc, exato.comps, exato.usados)]
  /\ UNCHANGED <<motorParado, engine, demais>>

NextExato == ExatoEncontrarMatch

SpecExato == InitExato /\ [][NextExato]_vars
(***************************************************************************)
(* Rule loading: the entries of the rule files of the scenarios.           *)
(***************************************************************************)
\* the mapping of the entry lacks the key k
SemChave(e, k) == [e EXCEPT !.ausentes = @ \cup {k}]

\* the mapping of the condition at j lacks the key k
CondSemChave(e, j, k) == [e EXCEPT !.cond_ausentes[j] = @ \cup {k}]

\* a rule with an id of its own, the base of the entries that break a check
RegraBase == [RegraBaixa EXCEPT !.id = <<"r", "9">>]

\* ativo: false
RegraInativa == [RegraPadrao EXCEPT !.ativo = <<FALSE>>]

\* ativo: true
RegraAtiva == [RegraCredito EXCEPT !.ativo = <<TRUE>>]

\* another rule under the id of RegraTarifa
RegraMesmoId == [RegraBaixa EXCEPT !.id = RegraTarifa.id]

\* a between condition whose value is a number, not a [min, max] list
RegraBetweenEscalar ==
  [RegraBase EXCEPT !.id = <<"r", "7">>,
                    !.condicoes = << Cond("valor", "between", N(1000)) >>]

\* a between condition with a three-element list
RegraBetweenTres ==
  [RegraBase EXCEPT !.id = <<"r", "8">>,
                    !.condicoes = << Cond("valor", "between",
                                          Lst(<<N(1000), N(1500), N(2000)>>)) >>]

\* id: "" and nome: ""
RegraIdVazio == [RegraBase EXCEPT !.id = <<>>]
RegraNomeVazio == [RegraBase EXCEPT !.id = <<"r", "6">>, !.nome = <<>>]

\* entries that pass every check of _validar_regras when alone in a document
EntradasAceitas ==
  { Entrada(RegraTarifa), Entrada(RegraBaixa), Entrada(RegraInativa), Entrada(RegraAtiva),
    Entrada(RegraMesmoId), Entrada(RegraBetweenEscalar), Entrada(RegraBetweenTres),
    Entrada(RegraIdVazio), Entrada(RegraNomeVazio) }

\* entries that break one check each
EntradasRejeitadas ==
  { SemChave(Entrada(RegraBase), "id"),
    SemChave(Entrada(RegraBase), "nome"),
    SemChave(Entrada(RegraBase), "condicoes"),
    SemChave(Entrada(RegraBase), "acao"),
    SemChave(Entrada([RegraBase EXCEPT !.ativo = <<FALSE>>]), "nome"),
    Entrada([RegraBase EXCEPT !.condicoes = <<>>]),
    [Entrada(RegraBase) EXCEPT !.condicoes_tipo = "str"],
    CondSemChave(Entrada(RegraBase), 1, "campo"),
    CondSemChave(Entrada(RegraBase), 1, "operador"),
    CondSemChave(Entrada(RegraBase), 1, "valor"),
    Entrada([RegraBase EXCEPT !.condicoes[1].operador = "starts_with"]),
    [Entrada(RegraBase) EXCEPT !.acao_tipo = "str"],
    [Entrada(RegraBase) EXCEPT !.acao_ausentes = {"tipo"}],
    Entrada([RegraBase EXCEPT !.acao.tipo = "bloquear"]) }

EntradasCatalogo == EntradasAceitas \cup EntradasRejeitadas

\* what is on disk when the key regras holds no list
EstadosSemLista == {"ausente", "yaml_invalido", "vazio", "sem_regras", "regras_nula"}

\* the rule files a ParserRegras is applied to
ArquivosParser ==
  {Arquivo(estado, <<>>) : estado \in EstadosSemLista}
    \cup {Arquivo("regras", entradas) : entradas \in SeqAte(EntradasCatalogo, MaxRegras)}

(***************************************************************************)
(* The parser on its own: a ParserRegras on a rule file, and carregar.     *)
(***************************************************************************)
InitParser ==
  /\ MotorInicial
  /\ engine = EngineOcioso
  /\ exato = ExatoOcioso
  /\ arquivo \in ArquivosParser
  /\ parser = ParserOcioso
  /\ chamada = SemOutraChamada
  /\ ciclo = CicloOcioso
  /\ calculo = CalculoOcioso

\* regras = parser.carregar()
Carregar ==
  /\ ~parser.chamado
  /\ parser' = [chamado |-> TRUE, ret |-> carregar(arquivo)]
  /\ UNCHANGED <<motorParado, engine, exato, calculo, arquivo, chamada, ciclo>>

NextParser == Carregar

SpecParser == InitParser /\ [][NextParser]_vars

(***************************************************************************)
(* A motor whose EstrategiaRegras is built on a rule file of any kind.     *)
(***************************************************************************)
\* the rule files the EstrategiaRegras of the motor is built on
ArquivosMotor ==
  {Arquivo(estado, <<>>) : estado \in EstadosSemLista}
    \cup { Documento(<<RegraTarifa, RegraBaixa>>),
           Documento(<<RegraInativa>>),
           Documento(<<RegraTarifa, RegraMesmoId>>),
           Arquivo("regras", <<Entrada(RegraTarifa),
                               Entrada([RegraBase EXCEPT !.acao.tipo = "bloquear"])>>),
           Arquivo("regras", <<Entrada(RegraTarifa), SemChave(Entrada(RegraBase), "id")>>) }

InitArquivo ==
  /\ engine = EngineOcioso
  /\ exato = ExatoOcioso
  /\ parser = ParserOcioso
  /\ chamada = SemOutraChamada
  /\ ciclo = CicloOcioso
  /\ calculo = CalculoOcioso
  /\ arquivo \in ArquivosMotor
  /\ estrategias = EstrategiasPadrao(arquivo)
  /\ config = ConfigPadrao
  /\ _tempo_total = 0
  /\ _total_conciliacoes = 0
  /\ lancamentos \in SeqAte(LancsMotor, MaxLanc)
  /\ comprovantes \in SeqAte(CompsMotor, MaxComp)
  /\ retorno = SemChamada

NextArquivo == Conciliar

SpecArquivo == InitArquivo /\ [][NextArquivo]_vars

(***************************************************************************)
(* The other operations of the motor: conciliar_com_filtros,               *)
(* gerar_estatisticas, the registration methods the examples call, and     *)
(* the function criar_motor_padrao.                                        *)
(***************************************************************************)
\* the rule documents, transactions and receipts of these scenarios
DocsApi == { <<>>, <<RegraTarifa>> }
LancsApi == {1, 3}
CompsApi == {1, 2}

\* values a caller assigns to config["confianca_auto_aprovar"]
LimiaresAuto == {80, 90}

InitApi ==
  /\ engine = EngineOcioso
  /\ exato = ExatoOcioso
  /\ DemaisOciosas
  /\ \E doc \in DocsApi : estrategias = EstrategiasPadrao(Documento(doc))
  /\ config = ConfigPadrao
  /\ _tempo_total = 0
  /\ _total_conciliacoes = 0
  /\ lancamentos \in SeqAte(LancsApi, MaxLanc)
  /\ comprovantes \in SeqAte(CompsApi, MaxComp)
  /\ retorno = SemChamada

\* the call recorded for the outcome ret of conciliar_com_filtros
FiltradaDe(args, ret) == ChamadaDe("conciliar_com_filtros", ret.erro, args, ret)

\* matches = motor.conciliar_com_filtros(lancamentos, comprovantes, fl, fc):
\* the counters are those of the conciliar call it ends with
ConciliarComFiltros ==
  /\ UNCHANGED <<estrategias, config, lancamentos, comprovantes, retorno, engine, exato,
                 arquivo, parser, ciclo, calculo>>
  /\ _total_conciliacoes < MaxRuns
  /\ \E fl \in FiltrosLancamento, fc \in FiltrosComprovante :
       chamada' = FiltradaDe(<<fl, fc>>,
                             conciliar_com_filtros(estrategias, config, lancamentos,
                                                   comprovantes, fl, fc))
  /\ IF chamada'.ret.erro = ""
     THEN /\ \E dt \in Decorrido : _tempo_total' = _tempo_total + dt
          /\ _total_conciliacoes' = _total_conciliacoes + 1
     ELSE UNCHANGED <<_tempo_total, _total_conciliacoes>>

\* the call recorded for the outcome g of gerar_estatisticas
EstatisticasDe(matches, lancs, g) ==
  ChamadaDe("gerar_estatisticas", g.erro, [matches |-> matches, lancamentos |-> lancs], g.saida)

\* stats = motor.gerar_estatisticas(matches, lancs) on the Matches of the
\* last conciliar call, with the transaction list or with an empty list
GerarEstatisticas ==
  /\ UNCHANGED <<motorParado, engine, exato, calculo, arquivo, parser, ciclo>>
  /\ \E lancs \in {lancamentos, <<>>} :
       chamada' = EstatisticasDe(retorno.st.matches, lancs,
                    gerar_estatisticas(Motor(estrategias, config, _tempo_total,
                                             _total_conciliacoes),
                                       retorno.st.matches, lancs))

\* motor.adicionar_estrategia(EstrategiaExato()): the attribute lookup fails
AdicionarEstrategia ==
  /\ UNCHANGED <<motorParado, engine, exato, calculo, arquivo, parser, ciclo>>
  /\ ObterAtributo("adicionar_estrategia") # ""
  /\ chamada' = ChamadaDe("adicionar_estrategia", ObterAtributo("adicionar_estrategia"),
                          EstrategiaExato(3, 0, FALSE, 70), <<>>)

\* motor.listar_estrategias(): the attribute lookup fails
ListarEstrategias ==
  /\ UNCHANGED <<motorParado, engine, exato, calculo, arquivo, parser, ciclo>>
  /\ ObterAtributo("listar_estrategias") # ""
  /\ chamada' = ChamadaDe("listar_estrategias", ObterAtributo("listar_estrategias"),
                          <<>>, <<>>)

\* criar_motor_padrao(): motor = MotorConciliacao(), then the lookup of
\* adicionar_estrategia on it fails and the function is left by the error
CriarMotorPadrao ==
  /\ UNCHANGED <<motorParado, engine, exato, calculo, arquivo, parser, ciclo>>
  /\ ObterAtributo("adicionar_estrategia") # ""
  /\ chamada' = ChamadaDe("criar_motor_padrao", ObterAtributo("adicionar_estrategia"),
                          <<>>, <<>>)

\* motor.config["confianca_auto_aprovar"] = v
AtribuirConfiancaAutoAprovar ==
  /\ \E v \in LimiaresAuto :
       /\ v # config.confianca_auto_aprovar
       /\ config' = [config EXCEPT !.confianca_auto_aprovar = v]
  /\ chamada' = SemOutraChamada
  /\ UNCHANGED <<estrategias, _tempo_total, _total_conciliacoes, lancamentos, comprovantes,
                 retorno, engine, exato, arquivo, parser, ciclo, calculo>>

NextApi ==
  \/ Conciliar
  \/ ConciliarComFiltros
  \/ GerarEstatisticas
  \/ AdicionarEstrategia
  \/ ListarEstrategias
  \/ CriarMotorPadrao
  \/ AtribuirConfiancaAutoAprovar

SpecApi == InitApi /\ [][NextApi]_vars

(***************************************************************************)
(* The life of a Match (src/src/modelos/match.py): confirmar and desfazer, *)
(* with the conciliado flags of the objects.                               *)
(***************************************************************************)
\* Lancamento.marcar_como_conciliado / Comprovante.marcar_como_conciliado
marcar_como_conciliado(conciliados, obj) == conciliados \cup {obj}

\* Lancamento.desmarcar_conciliacao / Comprovante.desmarcar_conciliacao
desmarcar_conciliacao(conciliados, obj) == conciliados \ {obj}

\* if usuario: a None and an empty text are both false
Verdadeiro(usuario) == usuario # <<>> /\ usuario[1] # <<>>

\* Match.confirmar(usuario)
confirmar(c, usuario) ==
  [c EXCEPT !.m.confirmado = TRUE,
            !.usuario = IF Verdadeiro(usuario) THEN usuario ELSE @,
            !.lancs = marcar_como_conciliado(@, c.m.lancamento),
            !.comps = IF c.m.comprovante # Nenhum
                      THEN marcar_como_conciliado(@, c.m.comprovante) ELSE @]

\* variant: the flag of the receipt is left as it is
desfazer_semComprovante(c) ==
  [c EXCEPT !.m.confirmado = FALSE,
            !.usuario = <<>>,
            !.lancs = desmarcar_conciliacao(@, c.m.lancamento)]

\* Match.desfazer()
desfazer(c) ==
  [c EXCEPT !.m.confirmado = FALSE,
            !.usuario = <<>>,
            !.lancs = desmarcar_conciliacao(@, c.m.lancamento),
            !.comps = IF c.m.comprovante # Nenhum
                      THEN desmarcar_conciliacao(@, c.m.comprovante) ELSE @]

\* the names passed to confirmar: None, "" and two names
Usuarios == { <<>>, << <<>> >>, << <<"a", "n", "a">> >>, << <<"b", "i", "a">> >> }

\* Match(lanc, comp, 0.75, "exato") with a receipt, Match(lanc, None, 0.85,
\* "regra") without; the objects reconciled at the start are among the two
\* of the Match and one other receipt
InitMatch ==
  /\ MotorInicial
  /\ engine = EngineOcioso
  /\ exato = ExatoOcioso
  /\ arquivo = Arquivo("ausente", <<>>)
  /\ parser = ParserOcioso
  /\ chamada = SemOutraChamada
  /\ calculo = CalculoOcioso
  /\ \E lanc \in LancIds, comp \in {Nenhum} \cup CompIds, outro \in CompIds :
       \E lancs \in SUBSET {lanc}, comps \in SUBSET ({comp, outro} \ {Nenhum}) :
         ciclo = Ciclo(NovoMatch(lanc, comp, <<75>>,
                                 IF comp = Nenhum THEN "regra" ELSE "exato", <<>>).m[1],
                       <<>>, lancs, comps, [lancs |-> lancs, comps |-> comps], "", FALSE)

\* match.confirmar(usuario)
Confirmar ==
  /\ \E usuario \in Usuarios :
       ciclo' = [confirmar(ciclo, usuario) EXCEPT !.ultima = "confirmar",
                                                   !.ja_confirmou = TRUE]
  /\ UNCHANGED <<motorParado, engine, exato, calculo, arquivo, parser, chamada>>

\* match.desfazer()
Desfazer ==
  /\ ciclo' = [desfazer(ciclo) EXCEPT !.ultima = "desfazer"]
  /\ UNCHANGED <<motorParado, engine, exato, calculo, arquivo, parser, chamada>>

NextMatch ==
  \/ Confirmar
  \/ Desfazer

SpecMatch == InitMatch /\ [][NextMatch]_vars

(***************************************************************************)
(* The score on its own: calcular_confianca applied to an EstrategiaExato, *)
(* a Lancamento and a Comprovante.  The transaction is on day 5; a receipt *)
(* is 0 to 5 or 15 days later, with the same amount or 0.40 more, with or  *)
(* without a beneficiary, and with an OCR confidence of 0 (none), 0.50,    *)
(* 0.80 or 0.90.                                                           *)
(***************************************************************************)
DatasComprovante == {5, 6, 7, 8, 9, 10, 20}
ConfiancasOcr == {0, 50, 80, 90}

LancamentosCalculo ==
  { [data |-> 5, valor |-> 1500, descricao |-> d, tipo |-> "D"] :
      d \in { <<"P", "I", "X">>, <<"T", "A", "X">> } }

ComprovantesCalculo ==
  [data : DatasComprovante, valor : {1500, 1540},
   beneficiario : { <<>>, <<"P", "I", "X">> }, confianca_ocr : ConfiancasOcr]

InitConfianca ==
  /\ MotorInicial
  /\ engine = EngineOcioso
  /\ exato = ExatoOcioso
  /\ arquivo = Arquivo("ausente", <<>>)
  /\ parser = ParserOcioso
  /\ chamada = SemOutraChamada
  /\ ciclo = CicloOcioso
  /\ \E d \in ToleranciasDias, v \in ToleranciasValor, u \in BOOLEAN,
        l \in LancamentosCalculo, c \in ComprovantesCalculo :
       calculo = Calculo("nenhum", <<EstrategiaExato(d, v, u, 70), l, c>>, <<>>)

\* confianca = estrategia.calcular_confianca(lancamento, comprovante)
CalcularConfianca ==
  /\ calculo.op = "nenhum"
  /\ calculo' = Calculo("calcular_confianca", calculo.args,
                        <<calcular_confianca(calculo.args[1], calculo.args[2], calculo.args[3])>>)
  /\ UNCHANGED <<motorParado, engine, exato, arquivo, parser, chamada, ciclo>>

NextConfianca == CalcularConfianca

SpecConfianca == InitConfianca /\ [][NextConfianca]_vars

(***************************************************************************)
(* The cascade of the motor: a MotorConciliacao whose EstrategiaRegras is  *)
(* loaded from a rule document, called on transactions 1 to 3 and on       *)
(* receipts 1, 2 and 5 (receipt 5 carries an OCR confidence).              *)
(***************************************************************************)
\* amounts below 20.00, with the highest priority of the documents
RegraAlta ==
  [RegraPadrao EXCEPT !.id = <<"r", "6">>, !.nome = <<"A">>, !.prioridade = <<30>>]

DocsCascata == DocsMotor \cup { <<RegraTarifa>>, <<RegraInvalida, RegraAlta>> }
CompsCascata == {1, 2, 5}

\* the motor built on a rule document, and the lists of the call
MotorDaCascata ==
  /\ engine = EngineOcioso
  /\ exato = ExatoOcioso
  /\ parser = ParserOcioso
  /\ chamada = SemOutraChamada
  /\ calculo = CalculoOcioso
  /\ \E doc \in DocsCascata : arquivo = Documento(doc)
  /\ estrategias = EstrategiasPadrao(arquivo)
  /\ config = ConfigPadrao
  /\ _tempo_total = 0
  /\ _total_conciliacoes = 0
  /\ lancamentos \in SeqAte(LancsMotor, MaxLanc)
  /\ comprovantes \in SeqAte(CompsCascata, MaxComp)
  /\ retorno = SemChamada

InitCascata ==
  /\ MotorDaCascata
  /\ ciclo = CicloOcioso

\* matches = motor.conciliar(lancamentos, comprovantes), the one call to
\* completion of the scenario
ConciliarUmaVez == ConciliarAte(1)

NextCascata == ConciliarUmaVez

SpecCascata == InitCascata /\ [][NextCascata]_vars

(***************************************************************************)
(* Repeated calls: the motor and the lists of the cascade, called once     *)
(* more than in the other specifications.  Transaction 1 and receipt 1 may *)
(* have been marked as reconciled before the first call.                   *)
(***************************************************************************)
InitRepeticao ==
  /\ MotorDaCascata
  /\ \E marcados \in BOOLEAN :
       ciclo = IF marcados
               THEN [CicloOcioso EXCEPT !.lancs = {1}, !.comps = {1},
                                        !.inicio = [lancs |-> {1}, comps |-> {1}]]
               ELSE CicloOcioso

\* matches = motor.conciliar(lancamentos, comprovantes), again on the same
\* motor and lists
Reconciliar == ConciliarAte(MaxRuns + 1)

NextRepeticao == Reconciliar

SpecRepeticao == InitRepeticao /\ [][NextRepeticao]_vars

(***************************************************************************)
(* Rule kinds: the rule documents of the cascade with every choice of a    *)
(* valid acao.tipo for each rule, and a motor built on the file, called on *)
(* transactions 1 to 3 with receipt 1 or none.                             *)
(***************************************************************************)
\* the rule file with the acao.tipo of the rule at k replaced by f[k]
ComTipos(arq, f) ==
  [arq EXCEPT !.entradas = [k \in 1..Len(arq.entradas) |->
                              [arq.entradas[k] EXCEPT !.regra.acao.tipo = f[k]]]]

InitTipos ==
  /\ engine = EngineOcioso
  /\ exato = ExatoOcioso
  /\ parser = ParserOcioso
  /\ chamada = SemOutraChamada
  /\ calculo = CalculoOcioso
  /\ ciclo = CicloOcioso
  /\ \E doc \in DocsCascata : \E f \in [1..Len(doc) -> tipos_validos] :
       arquivo = ComTipos(Documento(doc), f)
  /\ estrategias = EstrategiasPadrao(arquivo)
  /\ config = ConfigPadrao
  /\ _tempo_total = 0
  /\ _total_conciliacoes = 0
  /\ lancamentos \in SeqAte(LancsMotor, MaxLanc)
  /\ comprovantes \in { <<>>, <<1>> }
  /\ retorno = SemChamada

NextTipos == ConciliarUmaVez

SpecTipos == InitTipos /\ [][NextTipos]_vars

(***************************************************************************)
(* A condition on its own: _avaliar_condicao applied to a transaction and  *)
(* a condition, and processar applied to a rule made of a condition every  *)
(* transaction satisfies followed by that condition.  "saldo" is a field   *)
(* name _obter_valor_campo does not map and "starts_with" an operator      *)
(* _aplicar_operador does not know.                                        *)
(***************************************************************************)
CamposCondicao == {"descricao", "valor", "data", "tipo", "saldo"}
OperadoresCondicao == operadores_validos \cup {"starts_with"}

ValoresCondicao ==
  { S(<<"t", "a", "x">>), S(<<"2", "0">>), S(<<"(">>), S(<<"D">>), N(2000), Dt(5),
    Lst(<<N(1000), N(2000)>>), Lst(<<N(1000), S(<<"a">>)>>), Lst(<<S(<<"D">>)>>) }

\* a rule whose first condition holds for every transaction
RegraCom(condicao) ==
  [RegraTarifa EXCEPT !.condicoes = << Cond("tipo", "in", Lst(<<S(<<"D">>), S(<<"C">>)>>)),
                                      condicao >>]

InitCondicao ==
  /\ MotorInicial
  /\ engine = EngineOcioso
  /\ exato = ExatoOcioso
  /\ arquivo = Arquivo("ausente", <<>>)
  /\ parser = ParserOcioso
  /\ chamada = SemOutraChamada
  /\ ciclo = CicloOcioso
  /\ \E l \in LancIds, campo \in CamposCondicao, operador \in OperadoresCondicao,
        valor \in ValoresCondicao :
       calculo = Calculo("nenhum", <<l, Cond(campo, operador, valor)>>, <<>>)

\* the answers for the condition: its own, and that of its rule
Avaliada(l, condicao) ==
  [condicao |-> _avaliar_condicao(LancObj[l], condicao),
   match |-> processar(<<RegraCom(condicao)>>, l, 1)]

\* engine._avaliar_condicao(lancamento, condicao) and
\* EngineRegras([regra]).processar(lancamento)
AvaliarCondicao ==
  /\ calculo.op = "nenhum"
  /\ calculo' = Calculo("_avaliar_condicao", calculo.args,
                        <<Avaliada(calculo.args[1], calculo.args[2])>>)
  /\ UNCHANGED <<motorParado, engine, exato, arquivo, parser, chamada, ciclo>>

NextCondicao == AvaliarCondicao

SpecCondicao == InitCondicao /\ [][NextCondicao]_vars

(***************************************************************************)
(* Properties of conciliar (specification Spec).                           *)
(***************************************************************************)

Retornou == retorno.erro = ""

Matches == retorno.st.matches
Chamadas == retorno.st.chamadas
Origens == retorno.st.origens

\* the motor still holds the strategy list its constructor built
ListaConstruida == estrategias \notin ListasAtribuidas

\* strategy e, called alone on the transaction at position i with no
\* receipt used, returns a Match the motor accepts
AceitoSozinho(e, i) ==
  LET r == encontrar_match(e, lancamentos[i], comprovantes, {})
  IN  r.tipo = "match" /\ r.m[1].confianca >= config.confianca_minima

\* C1: no two Matches of the returned list reference the same Comprovante
\* object; Matches without receipt are exempt.
C1_SemUsoDuplo ==
  Retornou =>
    \A a, b \in 1..Len(Matches) :
      (a # b /\ Matches[a].comprovante # Nenhum)
        => Matches[a].comprovante # Matches[b].comprovante

\* two transactions received two different receipts although the exact
\* strategy, with nothing used, would give the second one the receipt of the first
C1_Witness ==
  /\ Retornou
  /\ \E a, b \in 1..Len(Matches) :
       /\ a < b
       /\ Matches[a].comprovante # Nenhum
       /\ Matches[b].comprovante # Nenhum
       /\ \E j \in 1..Len(estrategias) :
            LET r == Exato_encontrar_match(estrategias[j], Matches[b].lancamento, comprovantes, {})
            IN  /\ estrategias[j].classe = "exato"
                /\ r.tipo = "match"
                /\ r.m[1].comprovante = Matches[a].comprovante

\* C2: every returned Match has a confidence of at least the configured
\* config["confianca_minima"], whichever strategy produced it.
C2_PisoDeConfianca ==
  Retornou => \A k \in 1..Len(Matches) : Matches[k].confianca >= config.confianca_minima

\* a run under a raised minimum that returned a Match and discarded another
C2_Witness ==
  /\ Retornou
  /\ config.confianca_minima = 70
  /\ Len(Matches) >= 1
  /\ \E k \in 1..Len(Chamadas) : Chamadas[k].resultado = "baixa"

Elegivel(i, c) ==
  \E j \in 1..Len(estrategias) :
    /\ estrategias[j].classe = "exato"
    /\ Candidato(estrategias[j], LancObj[lancamentos[i]], c, {})
    /\ calcular_confianca(estrategias[j], LancObj[lancamentos[i]], CompObj[c])[1] >= 60
    /\ calcular_confianca(estrategias[j], LancObj[lancamentos[i]], CompObj[c])[1]
         >= config.confianca_minima

\* a rule strategy gives the transaction at position i an accepted Match
RegraAplica(i) ==
  \E j \in 1..Len(estrategias) :
    estrategias[j].classe = "regras" /\ AceitoSozinho(estrategias[j], i)

Pretendentes(c) == {i \in 1..Len(lancamentos) : Elegivel(i, c)}

\* several transactions compete for the single receipt c
Disputa(c) ==
  /\ c \in Range(comprovantes)
  /\ Cardinality(Pretendentes(c)) >= 2
  /\ \A i \in Pretendentes(c) :
       /\ ~RegraAplica(i)
       /\ \A c2 \in Range(comprovantes) \ {c} : ~Elegivel(i, c2)

Primeiro(P) == CHOOSE i \in P : \A i2 \in P : i <= i2

\* C5: when several transactions would each match the same single receipt,
\* no rule applies and no other receipt is eligible, exactly one Match is
\* produced for the receipt, for the first of them in the input list, and
\* the later ones get no Match.
C5_DisputaPeloComprovante ==
  Retornou =>
    \A c \in CompIds :
      Disputa(c) =>
        /\ Cardinality({k \in 1..Len(Matches) : Matches[k].comprovante = c}) = 1
        /\ \E k \in 1..Len(Matches) :
             Matches[k].comprovante = c /\ Origens[k] = Primeiro(Pretendentes(c))
        /\ \A i \in Pretendentes(c) \ {Primeiro(Pretendentes(c))} :
             \A k \in 1..Len(Matches) : Origens[k] # i

\* a finished run in which two transactions competed for one receipt
C5_Witness == Retornou /\ \E c \in CompIds : Disputa(c)

\* C6: conciliar fails with ValueError on an empty transaction list and with
\* ConciliacaoError on an empty strategy list, before any strategy is
\* called; no Match is produced and the run counter and the accumulated time
\* keep their values.
C6_ErrosDeEntrada ==
  [][Conciliar =>
       /\ lancamentos = <<>> => retorno'.erro = "ValueError"
       /\ (lancamentos # <<>> /\ estrategias = <<>>) => retorno'.erro = "ConciliacaoError"
       /\ (lancamentos = <<>> \/ estrategias = <<>>) =>
            /\ retorno'.st.chamadas = <<>>
            /\ retorno'.st.matches = <<>>
            /\ _total_conciliacoes' = _total_conciliacoes
            /\ _tempo_total' = _tempo_total]_vars

\* a call on a motor without strategies failed with ConciliacaoError
C6_Witness ==
  /\ retorno.erro = "ConciliacaoError"
  /\ estrategias = <<>>
  /\ lancamentos # <<>>

\* C7: an error raised by a strategy for one transaction stays inside
\* conciliar: the call returns, that pair records no Match and adds nothing
\* to the used set, the next strategy is tried for the same transaction and
\* the later transactions are processed.
C7_ErroDeEstrategiaContido ==
  (retorno.erro # "sem chamada" /\ lancamentos # <<>> /\ estrategias # <<>>) =>
    /\ Retornou
    /\ \A i \in 1..Len(lancamentos) : \E k \in 1..Len(Chamadas) : Chamadas[k].lanc = i
    /\ retorno.st.usados = {Matches[k].comprovante : k \in 1..Len(Matches)}
    /\ \A k \in 1..Len(Chamadas) :
         Chamadas[k].resultado = "raise" =>
           /\ \A k2 \in 1..Len(Chamadas) :
                (Chamadas[k2].lanc = Chamadas[k].lanc /\ Chamadas[k2].resultado = "aceito")
                  => Chamadas[k2].estrategia # Chamadas[k].estrategia
           /\ Chamadas[k].estrategia < Len(estrategias) =>
                /\ k < Len(Chamadas)
                /\ Chamadas[k + 1].lanc = Chamadas[k].lanc
                /\ Chamadas[k + 1].estrategia = Chamadas[k].estrategia + 1
           /\ (Chamadas[k].estrategia = Len(estrategias) /\ Chamadas[k].lanc < Len(lancamentos)) =>
                /\ k < Len(Chamadas)
                /\ Chamadas[k + 1].lanc = Chamadas[k].lanc + 1
                /\ Chamadas[k + 1].estrategia = 1

\* the rule strategy raised for the first transaction, the exact strategy
\* matched it afterwards, and the second transaction was processed
C7_Witness ==
  /\ Retornou
  /\ Len(lancamentos) >= 2
  /\ Len(Chamadas) >= 3
  /\ Chamadas[1].resultado = "raise"
  /\ Chamadas[2].resultado = "aceito"
  /\ Chamadas[2].lanc = 1
  /\ Chamadas[3].lanc = 2

\* every strategy was called for the transaction at position i and none
\* returned an acceptable Match
SemProposta(i) ==
  \A j \in 1..Len(estrategias) :
    \E k \in 1..Len(Chamadas) :
      /\ Chamadas[k].lanc = i
      /\ Chamadas[k].estrategia = j
      /\ Chamadas[k].resultado \in {"none", "baixa"}

\* C8: the returned list has at most one Match per input transaction, in the
\* order of the transactions; a transaction for which every strategy returns
\* None or a Match below the minimum contributes no Match and no error; so
\* len(matches) <= len(lancamentos).
C8_UmMatchPorLancamento ==
  (retorno.erro # "sem chamada" /\ lancamentos # <<>> /\ estrategias # <<>>) =>
    /\ Retornou
    /\ Len(Origens) = Len(Matches)
    /\ Len(Matches) <= Len(lancamentos)
    /\ \A k \in 1..Len(Matches) :
         /\ Origens[k] \in 1..Len(lancamentos)
         /\ Matches[k].lancamento = lancamentos[Origens[k]]
    /\ \A k1, k2 \in 1..Len(Matches) : k1 < k2 => Origens[k1] < Origens[k2]
    /\ \A i \in 1..Len(lancamentos) :
         SemProposta(i) => \A k \in 1..Len(Matches) : Origens[k] # i

\* a run in which the first transaction got no Match (every strategy was
\* called, one of them proposed a Match below the minimum) and the second one did
C8_Witness ==
  /\ Retornou
  /\ Len(lancamentos) = 2
  /\ SemProposta(1)
  /\ \E k \in 1..Len(Chamadas) : Chamadas[k].lanc = 1 /\ Chamadas[k].resultado = "baixa"
  /\ Len(Matches) = 1
  /\ Origens[1] = 2

\* the receipts of the Matches accepted for the transactions before i
UsadosAntes(i) == {Matches[n].comprovante : n \in {n \in 1..Len(Matches) : Origens[n] < i}}

\* what the strategy of the call at k returned
Devolvido(k) ==
  encontrar_match(estrategias[Chamadas[k].estrategia], lancamentos[Chamadas[k].lanc],
                  comprovantes, UsadosAntes(Chamadas[k].lanc))

\* the call at k returned a Match below the minimum confidence
Descartado(k) ==
  /\ Devolvido(k).tipo = "match"
  /\ Devolvido(k).m[1].confianca < config.confianca_minima

\* C19: a Match a strategy returns below config["confianca_minima"] is
\* discarded: it is not the Match of its transaction, its receipt is not
\* recorded as used (the used set holds the receipts of the accepted
\* Matches only), and the next strategy, if any, is called for the same
\* transaction.
C19_DescarteAbaixoDaMinima ==
  Retornou =>
    /\ retorno.st.usados = {Matches[n].comprovante : n \in 1..Len(Matches)}
    /\ \A k \in 1..Len(Chamadas) :
         /\ Chamadas[k].resultado = "baixa" <=> Descartado(k)
         /\ Descartado(k) =>
              /\ \A n \in 1..Len(Matches) :
                   Origens[n] = Chamadas[k].lanc => Matches[n] # Devolvido(k).m[1]
              /\ Chamadas[k].estrategia < Len(estrategias) =>
                   /\ k < Len(Chamadas)
                   /\ Chamadas[k + 1].lanc = Chamadas[k].lanc
                   /\ Chamadas[k + 1].estrategia = Chamadas[k].estrategia + 1

\* a run in which the rule strategy proposed a Match below the minimum for
\* a transaction, the exact strategy was then called for it, and proposed a
\* Match with a receipt that was discarded too and was paired with a later
\* transaction
C19_Witness ==
  /\ Retornou
  /\ \E k \in 1..(Len(Chamadas) - 1), n \in 1..Len(Matches) :
       /\ Descartado(k) /\ Descartado(k + 1)
       /\ Chamadas[k].lanc = Chamadas[k + 1].lanc
       /\ Devolvido(k).m[1].comprovante = Nenhum
       /\ Devolvido(k + 1).m[1].comprovante # Nenhum
       /\ Origens[n] > Chamadas[k].lanc
       /\ Matches[n].comprovante = Devolvido(k + 1).m[1].comprovante

(***************************************************************************)
(* Properties of EngineRegras.processar (specification SpecEngine).        *)
(***************************************************************************)
Processou == engine.lanc # 0

\* positions, in the rule document, of the rules whose conditions all
\* evaluate true for the transaction processed
Satisfeitas ==
  {k \in 1..Len(engine.doc) :
     \A i \in 1..Len(engine.doc[k].condicoes) :
       _avaliar_condicao(LancObj[engine.lanc], engine.doc[k].condicoes[i])}

\* the position with the highest prioridade, the earliest one among equals
Escolhida(P) ==
  CHOOSE k \in P :
    \A k2 \in P :
      \/ Prioridade(engine.doc[k]) > Prioridade(engine.doc[k2])
      \/ Prioridade(engine.doc[k]) = Prioridade(engine.doc[k2]) /\ k <= k2

\* the outcome of processar is what building the Match from rule k gives
Usada(k) == engine.ret = _criar_match(engine.lanc, engine.doc[k])

\* C4: processar answers with the Match built from the rule of highest
\* prioridade (a missing prioridade counts as 0, equal priorities keep the
\* order of the list) among the rules whose conditions all evaluate true,
\* and with None when there is no such rule; a rule is used only when every
\* rule of higher prioridade has a false condition.
C4_RegraDeMaiorPrioridade ==
  Processou =>
    /\ Satisfeitas = {} => engine.ret = RetNone
    /\ Satisfeitas # {} =>
         /\ Usada(Escolhida(Satisfeitas))
         /\ \A k \in Satisfeitas :
              Usada(k) =>
                \A k2 \in 1..Len(engine.doc) :
                  Prioridade(engine.doc[k2]) > Prioridade(engine.doc[k]) => k2 \notin Satisfeitas

\* two rules of the document are satisfied, the later one has the higher
\* prioridade, and the Match returned is built from it
C4_Witness ==
  /\ Processou
  /\ engine.ret.tipo = "match"
  /\ \E k1, k2 \in Satisfeitas :
       /\ k1 < k2
       /\ Prioridade(engine.doc[k1]) < Prioridade(engine.doc[k2])
       /\ Usada(k2)
       /\ ~Usada(k1)

\* the observation text of a rule: the action's text, or the default that
\* names the rule
TextoDaRegra(regra) ==
  IF regra.acao.observacao # <<>> THEN regra.acao.observacao[1]
  ELSE <<"Auto-conciliado", " ", "por", " ", "regra:", " ">> \o regra.nome

ConfiancaDaRegra(regra) ==
  IF regra.acao.confianca # <<>> THEN regra.acao.confianca[1] ELSE 85

\* C10 as stated: a Match of the rule engine has no receipt, metodo
\* 'regra', the confidence of the action (0.85 by default), and observations
\* that contain the observation text (or the default naming the rule), the
\* rule id and the category, each as written in the rule.
C10_ObservacoesLiterais ==
  (Processou /\ engine.ret.tipo = "match") =>
    LET regra == engine.doc[Escolhida(Satisfeitas)]
        m == engine.ret.m[1]
    IN  /\ m.comprovante = Nenhum
        /\ m.metodo = "regra"
        /\ m.confianca = ConfiancaDaRegra(regra)
        /\ ContainsStr(TextoDaRegra(regra), m.observacoes)
        /\ ContainsStr(regra.id, m.observacoes)
        /\ regra.acao.categoria # <<>> => ContainsStr(regra.acao.categoria[1], m.observacoes)

\* C10, amended: a Match of the rule engine has the transaction processed,
\* no receipt, metodo 'regra', the confidence of the action (0.85 by
\* default), and observations that contain the observation text (or the
\* default naming the rule), the rule id and the category once their
\* whitespace is normalised (runs collapsed to one space, ends stripped).
C10_MatchDeRegra ==
  (Processou /\ engine.ret.tipo = "match") =>
    LET regra == engine.doc[Escolhida(Satisfeitas)]
        m == engine.ret.m[1]
    IN  /\ m.lancamento = engine.lanc
        /\ m.comprovante = Nenhum
        /\ m.metodo = "regra"
        /\ m.confianca = ConfiancaDaRegra(regra)
        /\ m.observacoes = NormalizarEspacos(m.observacoes)
        /\ ContainsStr(NormalizarEspacos(TextoDaRegra(regra)), m.observacoes)
        /\ ContainsStr(NormalizarEspacos(regra.id), m.observacoes)
        /\ regra.acao.categoria # <<>> =>
             ContainsStr(<<"Categoria:", " ">> \o NormalizarEspacos(regra.acao.categoria[1]),
                         m.observacoes)

\* a Match built from a rule with a category and an observation text whose
\* whitespace the Match does not keep
C10_Witness ==
  /\ Processou
  /\ engine.ret.tipo = "match"
  /\ engine.doc[Escolhida(Satisfeitas)].acao.categoria # <<>>
  /\ engine.doc[Escolhida(Satisfeitas)].acao.observacao # <<>>
  /\ ~ContainsStr(engine.doc[Escolhida(Satisfeitas)].acao.observacao[1],
                  engine.ret.m[1].observacoes)

(***************************************************************************)
(* Properties of EstrategiaExato.encontrar_match (specification SpecExato).*)
(***************************************************************************)
\* receipt c is unused and within the amount and date tolerances of the
\* transaction the strategy was called with
Disponivel(c) ==
  /\ c \notin exato.usados
  /\ Abs(LancObj[exato.lanc].valor - CompObj[c].valor) <= exato.e.tolerancia_valor
  /\ Abs(LancObj[exato.lanc].data - CompObj[c].data) <= exato.e.tolerancia_dias

\* C9: a Match returned by EstrategiaExato.encontrar_match references a
\* receipt of the list given, whose identity is not in usados, whose amount
\* is within tolerancia_valor and whose date is within tolerancia_dias of the
\* transaction's; when no receipt of the list satisfies all three the call
\* returns None.
C9_SoComprovantesDisponiveis ==
  exato.chamado =>
    /\ exato.ret.tipo \in {"match", "none"}
    /\ exato.ret.tipo = "match" =>
         /\ exato.ret.m[1].lancamento = exato.lanc
         /\ exato.ret.m[1].comprovante \in Range(exato.comps)
         /\ Disponivel(exato.ret.m[1].comprovante)
    /\ (\A c \in Range(exato.comps) : ~Disponivel(c)) => exato.ret = RetNone

\* a Match was returned although the list also held an unused receipt of the
\* same amount dated outside the window
C9_Witness ==
  /\ exato.chamado
  /\ exato.ret.tipo = "match"
  /\ \E c \in Range(exato.comps) :
       /\ c \notin exato.usados
       /\ CompObj[c].valor = LancObj[exato.lanc].valor
       /\ Abs(LancObj[exato.lanc].data - CompObj[c].data) > exato.e.tolerancia_dias

\* the receipt at position k of the list passes the gates: not used, viable
\* (amounts of the same sign, none zero), amount and date within tolerance
PassaNosFiltros(k) ==
  /\ Disponivel(exato.comps[k])
  /\ LancObj[exato.lanc].valor > 0
  /\ CompObj[exato.comps[k]].valor > 0

\* the score of the receipt at position k
Pontuacao(k) == calcular_confianca(exato.e, LancObj[exato.lanc], CompObj[exato.comps[k]])

\* the positions of the receipts that pass the gates
Candidatos == {k \in 1..Len(exato.comps) : PassaNosFiltros(k)}

\* the earliest position among the candidates of highest score
Vencedor ==
  CHOOSE k \in Candidatos :
    \A k2 \in Candidatos :
      \/ FloatGt(Pontuacao(k), Pontuacao(k2))
      \/ Pontuacao(k2) = Pontuacao(k) /\ k <= k2

\* C20: EstrategiaExato.encontrar_match returns a Match with the receipt of
\* highest calcular_confianca score among those that pass the gates, the
\* earliest of the list when scores tie, with that score as confianca, if
\* the score is at least 0.60; with a best score below 0.60, or with no
\* candidate, it returns None.
C20_MelhorCandidato ==
  exato.chamado =>
    IF Candidatos # {} /\ FloatGe(Pontuacao(Vencedor), Flt(60))
    THEN /\ exato.ret.tipo = "match"
         /\ exato.ret.m[1].comprovante = exato.comps[Vencedor]
         /\ <<exato.ret.m[1].confianca, exato.ret.m[1].desvio>> = Pontuacao(Vencedor)
         /\ exato.ret.m[1].lancamento = exato.lanc
    ELSE exato.ret = RetNone

\* a call on a list of two distinct receipts that tie at the highest score,
\* the later one with the smaller identity; the earlier one is returned
C20_Witness ==
  /\ exato.chamado
  /\ exato.ret.tipo = "match"
  /\ \E k1, k2 \in Candidatos :
       /\ k1 < k2
       /\ exato.comps[k1] > exato.comps[k2]
       /\ Pontuacao(k1) = Pontuacao(k2)
       /\ exato.ret.m[1].comprovante = exato.comps[k1]

(***************************************************************************)
(* Properties of rule loading (specifications SpecArquivo and SpecParser). *)
(***************************************************************************)
\* the entry breaks one of the structural checks on a rule
Defeituosa(e) ==
  \/ e.ausentes \cap {"id", "nome", "condicoes", "acao"} # {}
  \/ e.condicoes_tipo # "list"
  \/ e.regra.condicoes = <<>>
  \/ \E j \in 1..Len(e.regra.condicoes) :
        \/ e.cond_ausentes[j] # {}
        \/ e.regra.condicoes[j].operador \notin
             {"equals", "not_equals", "contains", "not_contains", "regex",
              "greater_than", "less_than", "between", "in", "not_in"}
  \/ e.acao_tipo # "dict"
  \/ "tipo" \in e.acao_ausentes
  \/ e.regra.acao.tipo \notin {"auto_aprovar", "sugerir", "ignorar"}

\* two rules of the list carry the same id
IdRepetido(entradas) ==
  \E i, j \in 1..Len(entradas) :
    /\ i # j
    /\ "id" \notin entradas[i].ausentes
    /\ "id" \notin entradas[j].ausentes
    /\ entradas[i].regra.id = entradas[j].regra.id

\* the file holds a rule list with a rule that breaks a check
FalhaValidacao(arq) ==
  /\ arq.estado = "regras"
  /\ \/ \E i \in 1..Len(arq.entradas) : Defeituosa(arq.entradas[i])
     \/ IdRepetido(arq.entradas)

\* the file is missing, is not a document with a rule list, or fails validation
ArquivoInservivel(arq) == arq.estado # "regras" \/ FalhaValidacao(arq)

\* the cascade called the rule strategy (the first of the list) for every
\* transaction and got None each time
RegrasSempreNone ==
  /\ \A i \in 1..Len(lancamentos) :
       \E k \in 1..Len(Chamadas) : Chamadas[k].lanc = i /\ Chamadas[k].estrategia = 1
  /\ \A k \in 1..Len(Chamadas) :
       Chamadas[k].estrategia = 1 => Chamadas[k].resultado = "none"

\* C11: an EstrategiaRegras built on a rule file that is missing, malformed
\* or fails validation exists in the motor with zero rules; a conciliar call
\* on transactions then returns, the rule strategy having answered None for
\* every transaction, with the Matches the exact strategy alone produces.
C11_ArquivoInservivel ==
  ArquivoInservivel(arquivo) =>
    /\ Len(estrategias) = 2
    /\ estrategias[1].classe = "regras"
    /\ Len(estrategias[1].regras) = 0
    /\ (retorno # SemChamada /\ lancamentos # <<>>) =>
         /\ Retornou
         /\ RegrasSempreNone
         /\ Matches = conciliar(<<EstrategiaExato(3, 0, FALSE, 70)>>, config,
                                lancamentos, comprovantes).st.matches

\* a run on a file that fails validation, in which the exact strategy still
\* paired a transaction
C11_Witness ==
  /\ FalhaValidacao(arquivo)
  /\ Retornou
  /\ RegrasSempreNone
  /\ Matches # <<>>

\* the rule is kept by the filter on ativo: true, or absent
AtivoOuAusente(e) == e.regra.ativo # <<FALSE>>

\* the rules of the list whose ativo is true or absent, in document order
AtivasEmOrdem(entradas) ==
  [i \in 1..Len(SelectSeq(entradas, AtivoOuAusente)) |->
     SelectSeq(entradas, AtivoOuAusente)[i].regra]

\* C12: carregar on a rule list raises ValueError, returning no rules,
\* whenever a rule of the list (active or not) breaks a structural check or
\* shares its id with another rule; otherwise it returns the rules whose
\* ativo is true or absent, in document order.
C12_ValidacaoDeclarada ==
  (parser.chamado /\ arquivo.estado = "regras") =>
    IF FalhaValidacao(arquivo)
    THEN parser.ret = Carregado("ValueError", <<>>)
    ELSE parser.ret = Carregado("", AtivasEmOrdem(arquivo.entradas))

\* the rule has a between condition whose value is not a two-element list
BetweenSemPar(regra) ==
  \E j \in 1..Len(regra.condicoes) :
    /\ regra.condicoes[j].operador = "between"
    /\ \/ regra.condicoes[j].valor.t # "list"
       \/ Len(regra.condicoes[j].valor.v) # 2

\* the rule list has a rule with such a between condition, or with an
\* empty id or an empty nome
ForaDoDeclarado(entradas) ==
  \E i \in 1..Len(entradas) :
    \/ BetweenSemPar(entradas[i].regra)
    \/ entradas[i].regra.id = <<>>
    \/ entradas[i].regra.nome = <<>>

\* C13 as stated: carregar fails on a rule list that has a between
\* condition whose value is not a two-element list, or a rule whose id or
\* nome is empty.
C13_FalhaNaCarga ==
  (parser.chamado /\ arquivo.estado = "regras" /\ ForaDoDeclarado(arquivo.entradas)) =>
    parser.ret.erro # ""

\* C13: carregar checks neither the shape of a between value nor that id
\* and nome are non-empty: a rule list with such rules in which no rule
\* breaks a structural check and no id is repeated loads without error, its
\* active rules returned in document order; a rule with such a between
\* condition is then satisfied by no transaction.
C13_CargaSemEssasVerificacoes ==
  (parser.chamado /\ arquivo.estado = "regras" /\ ForaDoDeclarado(arquivo.entradas)
     /\ ~FalhaValidacao(arquivo)) =>
    /\ parser.ret = Carregado("", AtivasEmOrdem(arquivo.entradas))
    /\ \A k \in 1..Len(parser.ret.regras) :
         BetweenSemPar(parser.ret.regras[k]) =>
           \A l \in LancIds : ~_avaliar_regra(LancObj[l], parser.ret.regras[k])

\* a list with a between on a number and a rule with an empty id, loaded
C13_Witness ==
  /\ parser.chamado
  /\ arquivo = Documento(<<RegraBetweenEscalar, RegraIdVazio>>)
  /\ parser.ret = Carregado("", <<RegraBetweenEscalar, RegraIdVazio>>)

(***************************************************************************)
(* Properties of the other operations of the motor (specification SpecApi).*)
(***************************************************************************)
\* C14: motor.adicionar_estrategia(s) returns and leaves s among the
\* strategies of the motor, motor.listar_estrategias() returns, and
\* criar_motor_padrao() returns a motor.
C14_EstrategiaRegistrada ==
  /\ chamada.op = "adicionar_estrategia" =>
       /\ chamada.erro = ""
       /\ chamada.args \in Range(estrategias)
  /\ chamada.op = "listar_estrategias" => chamada.erro = ""
  /\ chamada.op = "criar_motor_padrao" => chamada.erro = ""

\* the transaction passes the predicate given for transactions (None passes all)
SatisfazFL(lanc) == chamada.args[1] = "nenhum" \/ filtro_lancamento(chamada.args[1], lanc)

\* the receipt passes the predicate given for receipts (None passes all)
SatisfazFC(comp) == chamada.args[2] = "nenhum" \/ filtro_comprovante(chamada.args[2], comp)

ComFiltros == chamada.op = "conciliar_com_filtros"

\* C16: conciliar_com_filtros returns (or fails) as conciliar does on the
\* sub-list of the transactions that satisfy the transaction predicate and
\* the sub-list of the receipts that satisfy the receipt predicate, an
\* absent predicate keeping the whole list; every Match returned links a
\* transaction that satisfies the first and, when it has a receipt, a
\* receipt that satisfies the second; when no transaction satisfies the
\* predicate the call fails with the ValueError of an empty transaction list.
C16_FiltrosComoSublistas ==
  ComFiltros =>
    /\ chamada.ret = conciliar(estrategias, config, SelectSeq(lancamentos, SatisfazFL),
                               SelectSeq(comprovantes, SatisfazFC))
    /\ \A k \in 1..Len(chamada.ret.st.matches) :
         /\ SatisfazFL(chamada.ret.st.matches[k].lancamento)
         /\ chamada.ret.st.matches[k].comprovante # Nenhum =>
              SatisfazFC(chamada.ret.st.matches[k].comprovante)
    /\ SelectSeq(lancamentos, SatisfazFL) = <<>> => chamada.ret.erro = "ValueError"

\* a call with both predicates, each of which leaves something out, that
\* returns a Match with a receipt
C16_Witness ==
  /\ ComFiltros
  /\ chamada.args = <<"debitos", "ate_dia_5">>
  /\ Len(SelectSeq(lancamentos, SatisfazFL)) < Len(lancamentos)
  /\ Len(SelectSeq(comprovantes, SatisfazFC)) < Len(comprovantes)
  /\ chamada.ret.erro = ""
  /\ \E k \in 1..Len(chamada.ret.st.matches) : chamada.ret.st.matches[k].comprovante # Nenhum

\* gerar_estatisticas was the last call and it returned
ComEstatisticas == chamada.op = "gerar_estatisticas" /\ chamada.erro = ""

\* the sum of the values of a dictionary of counts
RECURSIVE SomaDasContagens(_, _)
SomaDasContagens(d, chaves) ==
  IF chaves = {} THEN 0
  ELSE LET c == CHOOSE x \in chaves : TRUE
       IN  d[c] + SomaDasContagens(d, chaves \ {c})

\* the Matches given to the call whose confianca is at least the threshold
NoLimiar == {k \in 1..Len(chamada.args.matches) :
               chamada.args.matches[k].confianca >= config.confianca_auto_aprovar}

\* C17: in the dictionary gerar_estatisticas returns, auto_aprovados counts
\* the Matches with confianca >= config["confianca_auto_aprovar"],
\* requer_revisao counts the others, the two add up to total_matches, which
\* is the length of the match list, and the counts of por_metodo add up to
\* total_matches too.
C17_ContagensDasEstatisticas ==
  ComEstatisticas =>
    /\ chamada.ret.auto_aprovados = Cardinality(NoLimiar)
    /\ chamada.ret.requer_revisao = Cardinality((1..Len(chamada.args.matches)) \ NoLimiar)
    /\ chamada.ret.auto_aprovados + chamada.ret.requer_revisao = chamada.ret.total_matches
    /\ chamada.ret.total_matches = Len(chamada.args.matches)
    /\ SomaDasContagens(chamada.ret.por_metodo, DOMAIN chamada.ret.por_metodo)
         = chamada.ret.total_matches

\* statistics of a run with one Match at or above the threshold and one
\* below it, obtained by two methods, under a threshold the caller assigned
C17_Witness ==
  /\ ComEstatisticas
  /\ config.confianca_auto_aprovar # ConfigPadrao.confianca_auto_aprovar
  /\ chamada.ret.auto_aprovados = 1
  /\ chamada.ret.requer_revisao = 1
  /\ DOMAIN chamada.ret.por_metodo = {"regra", "exato"}

\* what gerar_estatisticas gives, for the arguments of the call recorded in
\* c, on a motor that has nothing but the given config
EmMotorNovo(c, cfg) ==
  gerar_estatisticas(Motor(<<>>, cfg, 0, 0), c.args.matches, c.args.lancamentos)

\* C18: a call of gerar_estatisticas leaves the motor (strategies, config,
\* counters) and the lists it was given as they were; its outcome is the
\* one a motor with only the same config gives on the same arguments,
\* whatever the runs made before; and a call on the arguments of the
\* previous call gives the outcome of the previous call.
C18_EstatisticasPuras ==
  [][GerarEstatisticas =>
       /\ UNCHANGED <<estrategias, config, _tempo_total, _total_conciliacoes,
                      lancamentos, comprovantes, retorno>>
       /\ Gerado(chamada'.erro, chamada'.ret) = EmMotorNovo(chamada', config)
       /\ (chamada.op = "gerar_estatisticas" /\ chamada.args = chamada'.args) =>
            (chamada'.erro = chamada.erro /\ chamada'.ret = chamada.ret)]_vars

\* statistics of the Matches of a run, taken after the run was counted
C18_Witness ==
  /\ ComEstatisticas
  /\ _total_conciliacoes > 0
  /\ _tempo_total > 0
  /\ chamada.args.matches # <<>>
  /\ chamada.ret.total_matches = Len(chamada.args.matches)

(***************************************************************************)
(* Properties of Match.confirmar and Match.desfazer (specification         *)
(* SpecMatch).                                                             *)
(***************************************************************************)
\* the conciliado flag of the Lancamento and of the Comprovante of the Match
LancamentoConciliado == ciclo.m.lancamento \in ciclo.lancs
ComprovanteConciliado == ciclo.m.comprovante \in ciclo.comps

\* the flags of the objects the Match does not link are as at the start
OutrosIntactos ==
  /\ ciclo.lancs \ {ciclo.m.lancamento} = ciclo.inicio.lancs \ {ciclo.m.lancamento}
  /\ ciclo.comps \ {ciclo.m.comprovante} = ciclo.inicio.comps \ {ciclo.m.comprovante}

\* C15: after confirmar the Match is confirmed and its Lancamento and, when
\* it has one, its Comprovante are conciliado; after desfazer the Match is
\* not confirmed, has no usuario, and neither object is conciliado, so a
\* Match whose objects started unreconciled is back to three false flags
\* after any sequence of calls that ends in desfazer.
C15_ConfirmarDesfazer ==
  /\ ciclo.ultima = "confirmar" =>
       /\ ciclo.m.confirmado
       /\ LancamentoConciliado
       /\ ciclo.m.comprovante # Nenhum => ComprovanteConciliado
  /\ ciclo.ultima = "desfazer" =>
       /\ ~ciclo.m.confirmado
       /\ ciclo.usuario = <<>>
       /\ ~LancamentoConciliado
       /\ ~ComprovanteConciliado
  /\ OutrosIntactos

\* a Match with a receipt, both objects unreconciled at the start,
\* confirmed by a named user and then undone
C15_Witness ==
  /\ ciclo.ultima = "desfazer"
  /\ ciclo.ja_confirmou
  /\ ciclo.m.comprovante # Nenhum
  /\ ciclo.inicio = [lancs |-> {}, comps |-> {}]
  /\ ~ciclo.m.confirmado /\ ~LancamentoConciliado /\ ~ComprovanteConciliado
(***************************************************************************)
(* Properties of the score (specification SpecConfianca).                  *)
(***************************************************************************)
\* calcular_confianca has been called
Calculou == calculo.op = "calcular_confianca"

\* the arguments and the result of the call
DaEstrategia == calculo.args[1]
DoLancamento == calculo.args[2]
DoComprovante == calculo.args[3]
Confianca == calculo.ret[1]

\* the date difference of the pair, in days
DiffDias == Abs(DoLancamento.data - DoComprovante.data)

\* the two amounts are equal
MesmoValor == DoLancamento.valor = DoComprovante.valor

\* the description bonus applies: the option is on and the similarity
\* reaches the minimum
BonusDescricao ==
  /\ DaEstrategia.usar_descricao
  /\ 100 * _calcular_similaridade_descricao(DoLancamento.descricao,
                                            DoComprovante.beneficiario)[1]
       >= DaEstrategia.min_similaridade_descricao
          * _calcular_similaridade_descricao(DoLancamento.descricao,
                                             DoComprovante.beneficiario)[2]

\* the OCR bonus applies
BonusOcr == DoComprovante.confianca_ocr >= 80

\* the date points of the claim
PontosDaData ==
  IF DiffDias = 0 THEN 30
  ELSE IF DiffDias = 1 THEN 25
  ELSE IF DiffDias = 2 THEN 20
  ELSE IF 3 <= DiffDias /\ DiffDias <= DaEstrategia.tolerancia_dias THEN 15
  ELSE 0

\* min(100, 50*[equal] + d + 15*[description] + 5*[OCR]), in hundredths
SomaDeclarada ==
  IF (IF MesmoValor THEN 50 ELSE 0) + PontosDaData
     + (IF BonusDescricao THEN 15 ELSE 0) + (IF BonusOcr THEN 5 ELSE 0) > 100
  THEN 100
  ELSE (IF MesmoValor THEN 50 ELSE 0) + PontosDaData
       + (IF BonusDescricao THEN 15 ELSE 0) + (IF BonusOcr THEN 5 ELSE 0)

RecibosAntes(i) ==
  {Matches[n].comprovante :
     n \in {n \in 1..Len(Matches) : Origens[n] < i /\ Matches[n].metodo = "exato"}}

\* the Match of the list is a rule Match
DeRegra(m) == m.metodo = "regra"

\* the call at k is a call of the exact strategy
ChamadaExata(k) == estrategias[Chamadas[k].estrategia].classe = "exato"

\* what the exact strategy returns at the call at k when the receipts
\* taken are those of the earlier exact Matches only
SemConsumoDeRegra(k) ==
  encontrar_match(estrategias[Chamadas[k].estrategia], lancamentos[Chamadas[k].lanc],
                  comprovantes, RecibosAntes(Chamadas[k].lanc))

Avaliou == calculo.op = "_avaliar_condicao"

\* the transaction and the condition of the call, and the field value
ACondicao == calculo.args[2]
OCampo == _obter_valor_campo(LancObj[calculo.args[1]], ACondicao.campo)[1]

\* the field name is not one of descricao, valor, data, tipo
CampoDesconhecido == ACondicao.campo \notin {"descricao", "valor", "data", "tipo"}

\* the operator is not one of the ten operators
OperadorDesconhecido == ACondicao.operador \notin operadores_validos

\* the literal e cannot be compared in order with the field value v: it
\* is not a number for a Decimal field, or of another type otherwise
NaoComparavel(v, e) ==
  IF v.t = "dec" THEN ~IsNumber(e) /\ ToDecimal(e) = <<>>
  ELSE v.t # e.t

\* applying the operator raises, or the pattern is not a regular expression
AplicacaoLevanta ==
  /\ ~CampoDesconhecido
  /\ \/ /\ ACondicao.operador \in {"greater_than", "less_than"}
        /\ NaoComparavel(OCampo, ACondicao.valor)
     \/ /\ ACondicao.operador = "between"
        /\ ACondicao.valor.t = "list"
        /\ Len(ACondicao.valor.v) = 2
        /\ IF OCampo.t = "dec"
           THEN \E n \in 1..2 : NaoComparavel(OCampo, ACondicao.valor.v[n])
           ELSE NaoComparavel(OCampo, ACondicao.valor.v[1])
     \/ /\ ACondicao.operador = "regex"
        /\ \/ ACondicao.valor.t # "str"
           \/ \E n \in 1..Len(ACondicao.valor.v) : ACondicao.valor.v[n] = "("

C24_EntradasIntactas ==
  [][/\ lancamentos' = lancamentos
     /\ comprovantes' = comprovantes
     /\ ciclo' = ciclo
     /\ estrategias' = estrategias
     /\ config' = config
     /\ retorno' = conciliar(estrategias, config, lancamentos, comprovantes)
     /\ retorno'.erro # "" =>
          _tempo_total' = _tempo_total /\ _total_conciliacoes' = _total_conciliacoes]_vars

\* a second call has returned, with an exact Match whose receipt the first
\* call had taken, on objects of which some were marked as reconciled
C24_Witness ==
  /\ Retornou
  /\ _total_conciliacoes = MaxRuns + 1
  /\ ciclo.lancs # {}
  /\ \E n \in 1..Len(Matches) :
       Matches[n].metodo = "exato" /\ Matches[n].comprovante \in retorno.st.usados

(***************************************************************************)
(* Claims on the amounts of the exact strategy, SpecExato.                 *)
(***************************************************************************)
\* the receipt at position k has an amount other than the transaction's
ValorDiferente(k) == CompObj[exato.comps[k]].valor # LancObj[exato.lanc].valor

\* C25: whatever tolerancia_valor, tolerancia_dias and usar_descricao, a
\* Match returned by EstrategiaExato.encontrar_match pairs a transaction and
\* a receipt of equal amounts; a receipt of another amount that passes the
\* gates scores at most 0.50 and is not the one returned.
C25_SoValoresIguais ==
  exato.chamado =>
    /\ exato.ret.tipo = "match" =>
         CompObj[exato.ret.m[1].comprovante].valor = LancObj[exato.lanc].valor
    /\ \A k \in Candidatos :
         ValorDiferente(k) => FloatGe(Flt(50), Pontuacao(k))

\* a call where a receipt of another amount passes the gates, listed first,
\* and the Match returned is with the receipt of equal amount listed after
C25_Witness ==
  /\ exato.chamado
  /\ exato.ret.tipo = "match"
  /\ Len(exato.comps) = 2
  /\ 1 \in Candidatos
  /\ ValorDiferente(1)
  /\ exato.ret.m[1].comprovante = exato.comps[2]

(***************************************************************************)
(* Claims on the rules of the cascade, SpecCascata.                        *)
(***************************************************************************)
\* the rules loaded from the document, in the order of the document
RegrasDoDocumento == carregar(arquivo).regras

\* the positions, in the document, of the rules the transaction at i satisfies
SatisfeitasPor(i) ==
  {k \in 1..Len(RegrasDoDocumento) :
     _avaliar_regra(LancObj[lancamentos[i]], RegrasDoDocumento[k])}

\* the satisfied rule of highest priority, the earliest of the document
\* among those of equal priority
MaisPrioritaria(i) ==
  RegrasDoDocumento[
    CHOOSE k \in SatisfeitasPor(i) :
      \A k2 \in SatisfeitasPor(i) :
        \/ Prioridade(RegrasDoDocumento[k]) > Prioridade(RegrasDoDocumento[k2])
        \/ Prioridade(RegrasDoDocumento[k]) = Prioridade(RegrasDoDocumento[k2]) /\ k <= k2]

\* the highest-priority rule the transaction at i satisfies has a
\* confidence in [0, 1] below the minimum of the motor
PrimeiraAbaixoDaMinima(i) ==
  /\ SatisfeitasPor(i) # {}
  /\ 0 <= ConfiancaDaRegra(MaisPrioritaria(i))
  /\ ConfiancaDaRegra(MaisPrioritaria(i)) < config.confianca_minima

\* C26: when the highest-priority rule a transaction satisfies has a
\* confidence below config['confianca_minima'], the run holds no rule Match
\* for that transaction, whatever the other rules it satisfies: the rule
\* strategy's Match is discarded and the next call is the exact strategy's
\* for the same transaction.
C26_RegraBaixaEncerraRegras ==
  Retornou =>
    \A i \in 1..Len(lancamentos) :
      PrimeiraAbaixoDaMinima(i) =>
        /\ \A n \in 1..Len(Matches) : Origens[n] = i => ~DeRegra(Matches[n])
        /\ \E k \in 1..(Len(Chamadas) - 1) :
             /\ Chamadas[k].lanc = i
             /\ ~ChamadaExata(k)
             /\ Chamadas[k].resultado = "baixa"
             /\ Chamadas[k + 1].lanc = i
             /\ ChamadaExata(k + 1)

\* a transaction whose highest-priority satisfied rule is below the
\* minimum, which also satisfies a rule of lower priority at or above the
\* minimum, and which got an exact Match
C26_Witness ==
  /\ Retornou
  /\ \E i \in 1..Len(lancamentos) :
       /\ PrimeiraAbaixoDaMinima(i)
       /\ \E k \in SatisfeitasPor(i) :
            /\ Prioridade(RegrasDoDocumento[k]) < Prioridade(MaisPrioritaria(i))
            /\ ConfiancaDaRegra(RegrasDoDocumento[k]) >= config.confianca_minima
       /\ \E n \in 1..Len(Matches) : Origens[n] = i /\ Matches[n].metodo = "exato"

\* the transaction at i satisfies a rule whose confidence is outside [0, 1]
SatisfazInvalida(i) ==
  \E k \in SatisfeitasPor(i) : ConfiancaDaRegra(RegrasDoDocumento[k]) \notin 0..100

\* the highest-priority rule the transaction at i satisfies has a
\* confidence outside [0, 1]
PrimeiraInvalida(i) ==
  /\ SatisfeitasPor(i) # {}
  /\ ConfiancaDaRegra(MaisPrioritaria(i)) \notin 0..100

\* the run holds no rule Match for the transaction at i: the call of the
\* rule strategy raised and the next call is the exact strategy's
ErroDeRegraContido(i) ==
  /\ \A n \in 1..Len(Matches) : Origens[n] = i => ~DeRegra(Matches[n])
  /\ \E k \in 1..(Len(Chamadas) - 1) :
       /\ Chamadas[k].lanc = i
       /\ ~ChamadaExata(k)
       /\ Chamadas[k].resultado = "raise"
       /\ Chamadas[k + 1].lanc = i
       /\ ChamadaExata(k + 1)

\* every rule of the file was loaded, whatever its confidence
TodasCarregadas ==
  /\ carregar(arquivo).erro = ""
  /\ Len(RegrasDoDocumento) = Len(arquivo.entradas)

\* every Match of the run has a confidence in [0, 1] and a valid method
MatchesValidos ==
  \A n \in 1..Len(Matches) :
    /\ FloatGe(ConfiancaDe(Matches[n]), Flt(0))
    /\ FloatGe(Flt(100), ConfiancaDe(Matches[n]))
    /\ Matches[n].metodo \in metodos_validos

ValoresExatosPadrao == {65, 70, 75, 80, 85}

\* the positions of the exact Matches of the run
MatchesExatos == {n \in 1..Len(Matches) : Matches[n].metodo = "exato"}

\* stats['auto_aprovados'] of gerar_estatisticas on the Matches of the run
AutoAprovadosDaCorrida ==
  gerar_estatisticas(Motor(estrategias, config, _tempo_total, _total_conciliacoes),
                     Matches, lancamentos).saida.auto_aprovados

\* the rule Matches of the run at or above the auto-approve threshold
RegrasAutoAprovadas ==
  {n \in 1..Len(Matches) :
     /\ DeRegra(Matches[n])
     /\ FloatGe(ConfiancaDe(Matches[n]), Flt(config.confianca_auto_aprovar))}

\* C29 as stated: with the default motor, the confianca of every exact
\* Match of a run is one of the floats 0.65, 0.70, 0.75, 0.80, 0.85, below
\* the auto-approve threshold, and auto_aprovados counts rule Matches only.
C29_ConfiancasLiterais ==
  Retornou =>
    /\ \A n \in MatchesExatos :
         /\ ConfiancaDe(Matches[n]) \in {Flt(h) : h \in ValoresExatosPadrao}
         /\ ~FloatGe(ConfiancaDe(Matches[n]), Flt(config.confianca_auto_aprovar))
    /\ AutoAprovadosDaCorrida = Cardinality(RegrasAutoAprovadas)

\* C29, amended: the confianca of every exact Match is, to the nearest
\* hundredth, one of 0.65, 0.70, 0.75, 0.80, 0.85, the float being that
\* literal or a double next to it; it is below the auto-approve threshold,
\* and auto_aprovados counts rule Matches only.
C29_AbaixoDoLimiar ==
  Retornou =>
    /\ \A n \in MatchesExatos :
         /\ Matches[n].confianca \in ValoresExatosPadrao
         /\ Matches[n].desvio \in {0 - 1, 0, 1}
         /\ ~FloatGe(ConfiancaDe(Matches[n]), Flt(config.confianca_auto_aprovar))
    /\ AutoAprovadosDaCorrida = Cardinality(RegrasAutoAprovadas)

\* a run with a rule Match at or above the threshold and an exact Match
\* whose confianca is the double after 0.70 (three days apart, with the OCR
\* bonus): auto_aprovados is 1 of 2 Matches
C29_Witness ==
  /\ Retornou
  /\ Len(Matches) = 2
  /\ AutoAprovadosDaCorrida = 1
  /\ \E n \in MatchesExatos : ConfiancaDe(Matches[n]) = <<70, 1>>

\* other values of config['tolerancia_dias'] and config['tolerancia_valor']
OutrasToleranciasDias == {0, 10}
OutrasToleranciasValor == {0, 4000}

\* the config of the motor with the two tolerances replaced
ComTolerancias(cfg, d, v) == [cfg EXCEPT !.tolerancia_dias = d, !.tolerancia_valor = v]

\* C30: config['tolerancia_dias'] and config['tolerancia_valor'] do not
\* influence conciliar: a motor that differs from this one in these two
\* entries only returns the same Matches, after the same strategy calls;
\* the exact strategy works with its own window of 3 days and its own
\* amount tolerance of 0.00, whatever the config says (3 and 0.50).
C30_ToleranciasDoConfigSemEfeito ==
  /\ config.tolerancia_dias = 3 /\ config.tolerancia_valor = 50
  /\ \A j \in 1..Len(estrategias) :
       estrategias[j].classe = "exato" =>
         estrategias[j].tolerancia_dias = 3 /\ estrategias[j].tolerancia_valor = 0
  /\ Retornou =>
       \A d \in OutrasToleranciasDias, v \in OutrasToleranciasValor :
         conciliar(estrategias, ComTolerancias(config, d, v), lancamentos, comprovantes)
           = retorno

\* a run that leaves a transaction without Match although a receipt of
\* its amount, dated more than 3 and at most 10 days from it, is left
C30_Witness ==
  /\ Retornou
  /\ \E i \in 1..Len(lancamentos) :
       /\ \A n \in 1..Len(Matches) : Origens[n] # i
       /\ \E c \in Range(comprovantes) \ retorno.st.usados :
            /\ CompObj[c].valor = LancObj[lancamentos[i]].valor
            /\ Abs(CompObj[c].data - LancObj[lancamentos[i]].data) \in 4..10

(***************************************************************************)
(* Claims on the kinds of the rules, SpecTipos.                            *)
(***************************************************************************)
\* the rule file with every acao.tipo replaced by auto_aprovar
SoAutoAprovar(arq) == ComTipos(arq, [k \in 1..Len(arq.entradas) |-> "auto_aprovar"])

\* C27: the Match of a satisfied rule does not depend on acao.tipo: the
\* engine loaded from a rule file returns, for every transaction, what the
\* engine loaded from the same file with every kind replaced by
\* auto_aprovar returns, and a motor built on the file returns the Matches
\* of a motor built on that other file; so two files that differ in the
\* kinds only give the same Matches.
C27_TipoNaoInflui ==
  Retornou =>
    /\ \A l \in LancIds :
         processar(_carregar_regras(arquivo), l, 1)
           = processar(_carregar_regras(SoAutoAprovar(arquivo)), l, 1)
    /\ conciliar(EstrategiasPadrao(SoAutoAprovar(arquivo)), config, lancamentos,
                 comprovantes).st.matches = Matches

\* a run with an accepted rule Match that a rule of kind ignorar or
\* sugerir produced
C27_Witness ==
  /\ Retornou
  /\ \E n \in 1..Len(Matches) :
       /\ DeRegra(Matches[n])
       /\ SatisfeitasPor(Origens[n]) # {}
       /\ MaisPrioritaria(Origens[n]).acao.tipo \in {"ignorar", "sugerir"}
       /\ RetMatch(Matches[n]) = _criar_match(lancamentos[Origens[n]], MaisPrioritaria(Origens[n]))

====
